---- MODULE Spec2Model ----
(***************************************************************************)
(* Model of the tootoo recommendation worker: the run coordinator of       *)
(* crates/worker/src/main.rs, the advisory date lock of                    *)
(* crates/core/src/storage/lock.rs, the snapshot writers of                *)
(* crates/core/src/storage/recommendations.rs and the generation client    *)
(* of crates/core/src/llm/anthropic.rs, with several worker processes      *)
(* (runs) sharing one Postgres store.                                      *)
(***************************************************************************)
EXTENDS Integers, Sequences, FiniteSets, TLC

\* ------------------------------------------------------------------ bounds
MaxRuns == 2
MaxDates == 2
MaxBlocks == 2
MaxTime == 5
MaxIssued == 2

Runs == 1..MaxRuns
\* as-of dates, as chrono's num_days_from_ce (739644 = 2026-01-28)
Dates == 739644..(739644 + MaxDates - 1)

\* ------------------------------------------------------- program constants
LOCK_NAMESPACE_HI == 5525327
LOCK_NAMESPACE_LO == 5525327
ITEM_COUNT == 20
MIN_CANDIDATES == 200
MAX_CANDIDATES == 500
DEFAULT_UNIVERSE_SIZE == 200
REPAIR_ATTEMPTS == 2
DEFAULT_MAX_TOKENS == 2048
RETRY_MIN_MAX_TOKENS == 4096
U32_HALF == 65536

\* ----------------------------------------------------------- date lock key
RECURSIVE BitXor(_, _)
BitXor(a, b) ==
    IF a = 0 THEN b
    ELSE IF b = 0 THEN a
    ELSE (((a % 2) + (b % 2)) % 2) + (2 * BitXor(a \div 2, b \div 2))

\* LOCK_NAMESPACE ^ days: the 48-bit namespace is kept as two 24-bit halves;
\* days_from_ce is below 2^24, so only the low half is touched by the xor.
\* The keys of the dates the runs work on are computed once and looked up.
LockKeys == [d \in Dates |-> <<LOCK_NAMESPACE_HI, BitXor(LOCK_NAMESPACE_LO, d)>>]

lock_key_for_date(d) ==
    IF d \in DOMAIN LockKeys THEN LockKeys[d]
    ELSE <<LOCK_NAMESPACE_HI, BitXor(LOCK_NAMESPACE_LO, d)>>

\* ------------------------------------------------- model output, validation
ItemShapes == {"good", "dup_ticker", "dup_rank", "short"}

MakeItems(shape) ==
    [i \in 1..(IF shape = "short" THEN ITEM_COUNT - 1 ELSE ITEM_COUNT) |->
        [rank   |-> IF i = ITEM_COUNT /\ shape = "dup_rank" THEN 1
                    ELSE i,
         ticker |-> IF i = ITEM_COUNT /\ shape = "dup_ticker" THEN 1 ELSE i]]

\* candidate outputs a model response to a request for date d can carry
\* (LlmRecommendationSnapshot): every item shape for d, and a well-formed
\* output for another date
ItemLists == [s \in ItemShapes |-> MakeItems(s)]

LlmOutputs(d) ==
    [as_of_date : {d}, generated_at : {"none"},
     items : {ItemLists[s] : s \in ItemShapes}]
    \cup [as_of_date : Dates \ {d}, generated_at : {"none"},
          items : {ItemLists["good"]}]

validate_and_into_item_ok(items, i) ==
    /\ items[i].rank \in 1..ITEM_COUNT
    /\ \A j \in 1..(i - 1) : items[j].rank # items[i].rank

\* variant: only the date is checked
validate_ok_date_only(out, expected_as_of_date) ==
    out.as_of_date = expected_as_of_date

\* variant: the date is not checked
validate_ok_any_date(out, expected_as_of_date) ==
    /\ Len(out.items) = ITEM_COUNT
    /\ \A rank \in 1..ITEM_COUNT : \E i \in 1..Len(out.items) : out.items[i].rank = rank

\* variant: every output is accepted
validate_ok_unchecked(out, expected_as_of_date) == TRUE

validate_ok(out, expected_as_of_date) ==
    /\ out.as_of_date = expected_as_of_date
    /\ Len(out.items) = ITEM_COUNT
    /\ \A i \in 1..Len(out.items) : validate_and_into_item_ok(out.items, i)
    /\ \A rank \in 1..ITEM_COUNT : \E i \in 1..Len(out.items) : out.items[i].rank = rank

\* the RecommendationSnapshot built from an accepted output
into_snapshot(out) ==
    [as_of_date |-> out.as_of_date, generated_at |-> out.generated_at,
     items |-> out.items]

NoSnapshot == [as_of_date |-> 0, generated_at |-> "none", items |-> <<>>]

\* ----------------------------------------------------------- model replies
\* What one create_message call can come back with.
\*   transport: "ok" | "network_error" | "http_error" | "bad_body"
\*   stop_reason: "max_tokens" | "end_turn"
\*   content: "tool" (emit_snapshot block, decodable), "tool_undecodable",
\*            "text" (text blocks only, parseable JSON of the schema),
\*            "text_garbage" (text blocks only, not parseable)
NoOutput == [as_of_date |-> 0, generated_at |-> "none", items |-> <<>>]

FailedReplies ==
    [transport : {"network_error", "http_error", "bad_body"},
     stop_reason : {"end_turn"}, content : {"text_garbage"}, output : {NoOutput}]

OkReplies(d) ==
    [transport : {"ok"}, stop_reason : {"max_tokens", "end_turn"},
     content : {"tool", "text"}, output : LlmOutputs(d)]
    \cup
    [transport : {"ok"}, stop_reason : {"max_tokens", "end_turn"},
     content : {"tool_undecodable", "text_garbage"}, output : {NoOutput}]

RepliesByDate == [d \in Dates |-> FailedReplies \cup OkReplies(d)]

Replies(d) == RepliesByDate[d]

\* the response to request `request` ("initial", "retry", "repair1",
\* "repair2"): every response is a document of its own, and the output it
\* carries has the generated_at the model wrote for that response
ResponseTo(request, reply) ==
    IF reply.output = NoOutput THEN reply
    ELSE [reply EXCEPT !.output.generated_at = request]

\* result of AnthropicClient calls: Ok((snapshot, raw_json)) or Err(e)
LlmOk(snapshot, raw) ==
    [ok |-> TRUE, snapshot |-> snapshot, raw |-> raw, diag |-> FALSE, stage |-> "none"]
\* Err(LlmDiagnosticsError{stage, raw_output, raw_response_json})
LlmDiagErr(stage, raw) ==
    [ok |-> FALSE, snapshot |-> NoSnapshot, raw |-> raw, diag |-> TRUE, stage |-> stage]
\* Err(any other anyhow error): no raw output attached; `context` is what the
\* error message says went wrong ("request", "tool_decode", "validation")
LlmPlainErr(context) ==
    [ok |-> FALSE, snapshot |-> NoSnapshot, raw |-> "null", diag |-> FALSE,
     stage |-> context]
NoResult == [ok |-> FALSE, snapshot |-> NoSnapshot, raw |-> "null", diag |-> FALSE, stage |-> "pending"]

\* create_message: Err for a failed transport, a non-2xx status or a body
\* that does not decode; otherwise the reply.
create_message_err(reply) ==
    IF reply.transport = "http_error" THEN LlmDiagErr("http", "http_error_body")
    ELSE LlmPlainErr("request")

\* ---------------------------------------------------------------- universe
\* inputs of build_candidate_universe_db: options from the environment and
\* the number of prefetched rows that survive the ETF/ETN name filter
UniverseCase(use_stub, size, oversample, eligible, query_fails) ==
    [use_stub |-> use_stub, size |-> size, oversample |-> oversample,
     eligible |-> eligible, query_fails |-> query_fails]

UniverseCases ==
    {UniverseCase(FALSE, DEFAULT_UNIVERSE_SIZE, 5, 1000, FALSE),
     UniverseCase(FALSE, DEFAULT_UNIVERSE_SIZE, 5, 150, FALSE),
     UniverseCase(FALSE, DEFAULT_UNIVERSE_SIZE, 5, 1000, TRUE),
     UniverseCase(FALSE, DEFAULT_UNIVERSE_SIZE, 0, 1000, FALSE),
     UniverseCase(FALSE, MIN_CANDIDATES - 1, 5, 1000, FALSE),
     UniverseCase(TRUE, MAX_CANDIDATES, 5, 0, FALSE),
     UniverseCase(TRUE, MAX_CANDIDATES + 1, 5, 0, FALSE)}

\* Ok(n candidates) is n; Err is one of the negative codes below
InvalidOptions == 0 - 1
QueryError == 0 - 2
InsufficientCandidates == 0 - 3

build_candidate_universe_stub(u) ==
    IF ~(u.size >= MIN_CANDIDATES /\ u.size <= MAX_CANDIDATES) THEN InvalidOptions
    ELSE u.size

\* variant: the check of the number of remaining rows is missing
build_candidate_universe_db_no_ensure(u) ==
    IF ~(u.size >= MIN_CANDIDATES /\ u.size <= MAX_CANDIDATES) THEN InvalidOptions
    ELSE IF ~(u.oversample >= 1) THEN InvalidOptions
    ELSE IF u.query_fails THEN QueryError
    ELSE IF u.eligible < u.size THEN u.eligible
    ELSE u.size

build_candidate_universe_db(u) ==
    IF ~(u.size >= MIN_CANDIDATES /\ u.size <= MAX_CANDIDATES) THEN InvalidOptions
    ELSE IF ~(u.oversample >= 1) THEN InvalidOptions
    ELSE IF u.query_fails THEN QueryError
    ELSE IF ~(u.eligible >= u.size) THEN InsufficientCandidates
    ELSE u.size

UniverseErrorName(n) ==
    IF n = InvalidOptions THEN "universe_invalid_options"
    ELSE IF n = QueryError THEN "universe_query_error"
    ELSE "insufficient_candidates"

\* variant: both bounds are excluded
try_new_ok_exclusive(n) == n > MIN_CANDIDATES /\ n < MAX_CANDIDATES

\* GenerateInput::try_new
try_new_ok(n) == n >= MIN_CANDIDATES /\ n <= MAX_CANDIDATES

\* ------------------------------------------------------------------- state
VARIABLES
    pc,                        \* where each run is in main()
    as_of_date,                \* the run's resolved as_of_date (0 before start)
    exit_code,                 \* process exit status once pc = "done" (-1 before)
    advisory_locks,            \* Postgres session-level advisory locks: {[key, session]}
    recommendation_snapshots,  \* committed rows of recommendation_snapshots, id = index
    recommendation_items,      \* committed rows of recommendation_items
    tx,                        \* the open persist_success transaction of each run
    llm,                       \* locals of the generation client call of each run
    llm_result,                \* result of generate_recommendations_with_raw
    hist,                      \* what each run has done so far (observation only)
    call                       \* a component called on its own: its input and progress

vars == <<pc, as_of_date, exit_code, advisory_locks, recommendation_snapshots,
          recommendation_items, tx, llm, llm_result, hist, call>>

NoTx == [open |-> FALSE, row |-> [as_of_date |-> 0, status |-> "none", raw |-> "null"],
         items |-> <<>>]
NoLlm ==
    [calls |-> 0, attempt |-> 0, last_raw |-> "null", max_tokens |-> <<0, 0>>,
     request_max_tokens |-> <<0, 0>>, stop_reason |-> "none"]
\* no component is being called on its own
NoCall == [fn |-> "none"]

NoHist ==
    [acquired |-> FALSE, denied |-> FALSE, outcome |-> "none",
     lock_attempts |-> 0, release_calls |-> 0, universe_builds |-> 0,
     model_called |-> FALSE, persist_failure_calls |-> 0,
     success_rows |-> 0, error_rows |-> 0,
     unlocked_work |-> FALSE, crashed_holding |-> FALSE]

Init ==
    /\ pc = [r \in Runs |-> "idle"]
    /\ as_of_date = [r \in Runs |-> 0]
    /\ exit_code = [r \in Runs |-> -1]
    /\ advisory_locks = {}
    /\ recommendation_snapshots = <<>>
    /\ recommendation_items = {}
    /\ tx = [r \in Runs |-> NoTx]
    /\ llm = [r \in Runs |-> NoLlm]
    /\ llm_result = [r \in Runs |-> NoResult]
    /\ hist = [r \in Runs |-> NoHist]
    /\ call = NoCall

\* ------------------------------------------------------------ store helpers
\* variant: the status filter names a status no row has
success_snapshot_exists_wrong_status(rows, d) ==
    \E i \in 1..Len(rows) : rows[i].status = "ok" /\ rows[i].as_of_date = d

\* SELECT 1 FROM recommendation_snapshots WHERE status='success' AND as_of_date=$1
success_snapshot_exists(rows, d) ==
    \E i \in 1..Len(rows) : rows[i].status = "success" /\ rows[i].as_of_date = d

\* the session (connection) of run r holds the advisory lock for key
HoldsLock(r, key) == [key |-> key, session |-> r] \in advisory_locks

\* variant: a lock function that is granted whoever holds the key
pg_try_advisory_lock_always(locks, key, r) == TRUE

\* pg_try_advisory_lock(key) issued on session r: granted unless another
\* session holds the key
pg_try_advisory_lock(locks, key, r) ==
    ~(\E l \in locks : l.key = key /\ l.session # r)

\* locks left after session r issued pg_advisory_unlock(key)
pg_advisory_unlock(locks, key, r) == locks \ {[key |-> key, session |-> r]}

\* variant: a lock that outlives the session that took it
SessionEnd_keeps_locks(locks, r) == locks

\* locks left after session r ended: all its advisory locks go with it
SessionEnd(locks, r) == {l \in locks : l.session # r}

\* a run touches the store or the model: remembered when it does so without
\* holding the lock of its date
Work(r, h) ==
    [h EXCEPT !.unlocked_work =
        @ \/ ~HoldsLock(r, lock_key_for_date(as_of_date[r]))]

\* main() returns: the process exits with `code`; its pool is dropped, so its
\* sessions end, and its locals are gone
ExitProcess(r, code) ==
    /\ pc' = [pc EXCEPT ![r] = "done"]
    /\ exit_code' = [exit_code EXCEPT ![r] = code]
    /\ advisory_locks' = SessionEnd(advisory_locks, r)
    /\ tx' = [tx EXCEPT ![r] = NoTx]
    /\ llm' = [llm EXCEPT ![r] = NoLlm]
    /\ llm_result' = [llm_result EXCEPT ![r] = NoResult]

\* ------------------------------------------------------- run coordinator
\* Runs and dates are interchangeable, so runs are started in index order and
\* a run takes a date already in use or the next unused one.
StartDates ==
    LET used == {as_of_date[s] : s \in Runs} \ {0}
    IN  {d \in Dates : \A e \in Dates : e < d => e \in used}

\* main.rs:38-81: settings, argument parsing, date resolution, pool, migrations
Start(r) ==
    /\ pc[r] = "idle"
    /\ UNCHANGED call
    /\ (IF r = 1 THEN TRUE ELSE pc[r - 1] # "idle")
    /\ \E d \in StartDates, setup_ok \in BOOLEAN :
        IF setup_ok
        THEN /\ pc' = [pc EXCEPT ![r] = "acquire_lock"]
             /\ as_of_date' = [as_of_date EXCEPT ![r] = d]
             /\ UNCHANGED <<exit_code, advisory_locks, tx, llm, llm_result, hist>>
        ELSE /\ ExitProcess(r, 1)
             /\ hist' = [hist EXCEPT ![r].outcome = "setup_error"]
             /\ UNCHANGED as_of_date
    /\ UNCHANGED <<recommendation_snapshots, recommendation_items>>

\* variant: the result of the lock attempt is not looked at
lock_denied_never(acquired) == FALSE

\* main.rs:144: `if !acquired { return Ok(()) }`
lock_denied(acquired) == ~acquired

\* main.rs:137-147: take a pool connection, try the advisory lock on it
AcquireLock(r) ==
    /\ pc[r] = "acquire_lock"
    /\ UNCHANGED call
    /\ \E fault \in BOOLEAN :
        LET key == lock_key_for_date(as_of_date[r])
            acquired == pg_try_advisory_lock(advisory_locks, key, r)
        IN  IF fault
            THEN /\ ExitProcess(r, 1)
                 /\ hist' = [hist EXCEPT ![r].lock_attempts = @ + 1,
                                         ![r].outcome = "lock_error"]
            ELSE IF lock_denied(acquired)
            THEN /\ ExitProcess(r, 0)
                 /\ hist' = [hist EXCEPT ![r].lock_attempts = @ + 1,
                                         ![r].denied = TRUE,
                                         ![r].outcome = "lock_denied"]
            ELSE /\ pc' = [pc EXCEPT ![r] = "idempotency_check"]
                 /\ advisory_locks' =
                      IF acquired
                      THEN advisory_locks \cup {[key |-> key, session |-> r]}
                      ELSE advisory_locks
                 /\ hist' = [hist EXCEPT ![r].lock_attempts = @ + 1,
                                         ![r].acquired = acquired,
                                         ![r].denied = ~acquired]
                 /\ UNCHANGED <<exit_code, tx, llm, llm_result>>
    /\ UNCHANGED <<as_of_date, recommendation_snapshots, recommendation_items>>

\* variant: the early return is missing
after_idempotency_check_no_return(hit) == "build_universe"

\* main.rs:149-155: `if success_snapshot_exists(..)? { release; return Ok(()) }`
after_idempotency_check(hit) == IF hit THEN "release" ELSE "build_universe"

\* main.rs:149-155: the idempotency query; `?` on a query error
IdempotencyCheck(r) ==
    /\ pc[r] = "idempotency_check"
    /\ UNCHANGED call
    /\ \E fault \in BOOLEAN :
        IF fault
        THEN /\ ExitProcess(r, 1)
             /\ hist' = [hist EXCEPT ![r] = [Work(r, @) EXCEPT !.outcome = "idem_error"]]
        ELSE LET hit == success_snapshot_exists(recommendation_snapshots, as_of_date[r])
             IN  /\ pc' = [pc EXCEPT ![r] = after_idempotency_check(hit)]
                 /\ hist' = [hist EXCEPT ![r] =
                               [Work(r, @) EXCEPT !.outcome =
                                   IF hit THEN "already_satisfied" ELSE @]]
                 /\ UNCHANGED <<exit_code, advisory_locks, tx, llm, llm_result>>
    /\ UNCHANGED <<as_of_date, recommendation_snapshots, recommendation_items>>

\* main.rs:157-166: universe options, universe build, client and input
\* construction; every failure leaves main through `?`
\* how main.rs:157-166 ends for universe inputs u: the error it returns
\* through `?`, or "ok" when the generation input is built
UniverseOutcome(u, api_key_set) ==
    LET n == IF u.use_stub THEN build_candidate_universe_stub(u)
             ELSE build_candidate_universe_db(u)
    IN  IF n < 0 THEN UniverseErrorName(n)
        ELSE IF ~api_key_set \/ ~try_new_ok(n) THEN "input_error"
        ELSE "ok"

UniverseOutcomes ==
    {UniverseOutcome(u, api_key_set) : u \in UniverseCases, api_key_set \in BOOLEAN}

BuildUniverse(r) ==
    /\ pc[r] = "build_universe"
    /\ UNCHANGED call
    /\ \E outcome \in UniverseOutcomes :
        IF outcome # "ok"
        THEN /\ ExitProcess(r, 1)
             /\ hist' = [hist EXCEPT ![r] =
                           [Work(r, @) EXCEPT !.universe_builds = @ + 1,
                                              !.outcome = outcome]]
        ELSE /\ pc' = [pc EXCEPT ![r] = "generate"]
             /\ hist' = [hist EXCEPT ![r] =
                           [Work(r, @) EXCEPT !.universe_builds = @ + 1]]
             /\ UNCHANGED <<exit_code, advisory_locks, tx, llm, llm_result>>
    /\ UNCHANGED <<as_of_date, recommendation_snapshots, recommendation_items>>

\* ------------------------------------------------------- generation client
\* max_tokens is a u32, kept as two 16-bit halves <<hi, lo>>
U32(n) == <<n \div U32_HALF, n % U32_HALF>>

U32_MAX == <<U32_HALF - 1, U32_HALF - 1>>

\* u32::saturating_mul(2)
saturating_mul_2(x) ==
    IF x[1] >= U32_HALF \div 2 THEN U32_MAX
    ELSE <<(2 * x[1]) + ((2 * x[2]) \div U32_HALF), (2 * x[2]) % U32_HALF>>

\* Ord::max on u32
u32_max(x, y) ==
    IF x[1] > y[1] \/ (x[1] = y[1] /\ x[2] >= y[2]) THEN x ELSE y

\* values of ANTHROPIC_MAX_TOKENS: below the default, the default, the retry
\* floor, and 2^31, whose double does not fit a u32
MaxTokensSettings ==
    {U32(DEFAULT_MAX_TOKENS \div 2), U32(DEFAULT_MAX_TOKENS),
     U32(RETRY_MIN_MAX_TOKENS), <<U32_HALF \div 2, 0>>}

\* variant: the ceiling of the retry is the configured one again
bumped_max_tokens_same(max_tokens) == max_tokens

\* anthropic.rs:367: self.max_tokens.saturating_mul(2).max(4096)
bumped_max_tokens(max_tokens) ==
    u32_max(saturating_mul_2(max_tokens), U32(RETRY_MIN_MAX_TOKENS))

\* anthropic.rs:366: matches!(res.stop_reason.as_deref(), Some("max_tokens"))
needs_retry(res) == res.stop_reason = "max_tokens"

\* json::parse_snapshot applied to response_text: only text blocks contribute
parse_snapshot_ok(reply, expected_as_of_date) ==
    /\ reply.content = "text"
    /\ validate_ok(reply.output, expected_as_of_date)

\* locals of the client while it waits for the answer to its next request
ClientLocals(attempt, last_raw, max_tokens, request_max_tokens, stop_reason) ==
    [attempt |-> attempt, last_raw |-> last_raw, max_tokens |-> max_tokens,
     request_max_tokens |-> request_max_tokens, stop_reason |-> stop_reason]

NoLocals == ClientLocals(0, "null", <<0, 0>>, <<0, 0>>, "none")

GenerationOk(reply, raw) ==
    [pc |-> "persist_success", result |-> LlmOk(into_snapshot(reply.output), raw),
     locals |-> NoLocals]

GenerationFailed(result) ==
    [pc |-> "record_failure", result |-> result, locals |-> NoLocals]

\* anthropic.rs:304-315: the next pass of the repair loop; its prompt is built
\* from last_text, i.e. from the response `last_raw`
NextRepair(attempt, last_raw) ==
    [pc |-> "repair", result |-> NoResult,
     locals |-> ClientLocals(attempt, last_raw, <<0, 0>>, <<0, 0>>, "none")]

\* anthropic.rs:379-387 and 296-301: what generate_recommendations_with_raw
\* does with the response it settled on (raw = which response that is)
AfterFirstResponse(reply, d, raw) ==
    IF reply.content = "tool_undecodable"
    THEN GenerationFailed(LlmPlainErr("tool_decode"))
    ELSE IF reply.content = "tool"
    THEN IF validate_ok(reply.output, d) THEN GenerationOk(reply, raw)
         ELSE GenerationFailed(LlmPlainErr("validation"))
    ELSE IF parse_snapshot_ok(reply, d) THEN GenerationOk(reply, raw)
    ELSE NextRepair(1, raw)

\* one create_message call was made and the client moved on to `a`; the
\* client's locals are dropped when it returns
SetGeneration(r, a) ==
    /\ pc' = [pc EXCEPT ![r] = a.pc]
    /\ llm_result' = [llm_result EXCEPT ![r] = a.result]
    /\ llm' = [llm EXCEPT ![r] =
                 IF a.pc \in {"generate_retry", "repair"}
                 THEN [calls |-> @.calls + 1, attempt |-> a.locals.attempt,
                       last_raw |-> a.locals.last_raw,
                       max_tokens |-> a.locals.max_tokens,
                       request_max_tokens |-> a.locals.request_max_tokens,
                       stop_reason |-> a.locals.stop_reason]
                 ELSE NoLlm]
    /\ hist' = [hist EXCEPT ![r] =
                  [Work(r, @) EXCEPT !.model_called = TRUE,
                                     !.outcome = IF a.pc = "record_failure"
                                                 THEN "generation_failed"
                                                 ELSE IF a.pc = "persist_success"
                                                 THEN "validated" ELSE @]]
    /\ UNCHANGED <<as_of_date, exit_code, advisory_locks, recommendation_snapshots,
                   recommendation_items, tx, call>>

\* anthropic.rs:363-373: what the client does with the answer to the initial
\* request, which was sent with the configured max_tokens; a truncated
\* response makes it prepare the retry
AfterInitialRequest(reply, d, max_tokens) ==
    LET res == ResponseTo("initial", reply)
    IN  IF res.transport # "ok" THEN GenerationFailed(create_message_err(res))
        ELSE IF needs_retry(res)
        THEN [pc |-> "generate_retry", result |-> NoResult,
              locals |-> ClientLocals(0, "null", max_tokens,
                                      bumped_max_tokens(max_tokens),
                                      res.stop_reason)]
        ELSE AfterFirstResponse(res, d, "initial")

\* the initial request is answered by any reply, under any max_tokens setting
InitialOutcomes ==
    [d \in Dates |->
        {AfterInitialRequest(reply, d, max_tokens) :
            reply \in Replies(d), max_tokens \in MaxTokensSettings}]

GenerateInitial(r) ==
    /\ pc[r] = "generate"
    /\ \E a \in InitialOutcomes[as_of_date[r]] : SetGeneration(r, a)

\* variant: a truncated retry response is retried again
AfterRetryRequest_retried_again(reply, d) ==
    LET res == ResponseTo("retry", reply)
    IN  IF res.transport # "ok" THEN GenerationFailed(create_message_err(res))
        ELSE IF needs_retry(res)
        THEN [pc |-> "generate_retry", result |-> NoResult,
              locals |-> ClientLocals(0, "null", <<0, 0>>, <<0, 0>>, res.stop_reason)]
        ELSE AfterFirstResponse(res, d, "retry")

\* anthropic.rs:374-377: the single retry with the raised max_tokens; its
\* response replaces the first one whatever its stop_reason
AfterRetryRequest(reply, d) ==
    LET res == ResponseTo("retry", reply)
    IN  IF res.transport # "ok" THEN GenerationFailed(create_message_err(res))
        ELSE AfterFirstResponse(res, d, "retry")

RetryOutcomes ==
    [d \in Dates |-> {AfterRetryRequest(reply, d) : reply \in Replies(d)}]

GenerateRetry(r) ==
    /\ pc[r] = "generate_retry"
    /\ \E a \in RetryOutcomes[as_of_date[r]] : SetGeneration(r, a)

RepairRaw(attempt) == IF attempt = 1 THEN "repair1" ELSE "repair2"

\* variant: a repaired snapshot is returned with the response before it
repair_ok_raw_previous(last_raw_json, repair_raw_json) == last_raw_json

\* anthropic.rs:320: Ok((snapshot, repair_raw_json))
repair_ok_raw(last_raw_json, repair_raw_json) == repair_raw_json

\* variant: the repair loop never gives up
AfterRepairRequest_unbounded(reply, d, attempt, last_raw_json) ==
    LET repair_raw_json == RepairRaw(attempt)
        res == ResponseTo(repair_raw_json, reply)
    IN  IF res.transport # "ok" THEN GenerationFailed(create_message_err(res))
        ELSE IF parse_snapshot_ok(res, d)
        THEN GenerationOk(res, repair_ok_raw(last_raw_json, repair_raw_json))
        ELSE IF attempt >= REPAIR_ATTEMPTS
        THEN NextRepair(attempt, last_raw_json)
        ELSE NextRepair(attempt + 1, repair_raw_json)

\* anthropic.rs:304-343: one pass of the repair loop
AfterRepairRequest(reply, d, attempt, last_raw_json) ==
    LET repair_raw_json == RepairRaw(attempt)
        res == ResponseTo(repair_raw_json, reply)
    IN  IF res.transport # "ok" THEN GenerationFailed(create_message_err(res))
        ELSE IF parse_snapshot_ok(res, d)
        THEN GenerationOk(res, repair_ok_raw(last_raw_json, repair_raw_json))
        ELSE IF attempt >= REPAIR_ATTEMPTS
        THEN GenerationFailed(LlmDiagErr("parse_after_repair", repair_raw_json))
        ELSE NextRepair(attempt + 1, repair_raw_json)

\* the repair request of pass `attempt`, built from response `last_raw`, is
\* answered by any reply
RepairOutcomes ==
    [d \in Dates, attempt \in 1..REPAIR_ATTEMPTS,
     last_raw \in {"initial", "retry", "repair1"} |->
        {AfterRepairRequest(reply, d, attempt, last_raw) : reply \in Replies(d)}]

Repair(r) ==
    /\ pc[r] = "repair"
    /\ \E a \in RepairOutcomes[as_of_date[r], llm[r].attempt, llm[r].last_raw] :
          SetGeneration(r, a)

\* ------------------------------------------------------------- persistence
\* variant: the unique index on as_of_date covers rows of every status
ux_per_date_violated(rows, row) ==
    \E i \in 1..Len(rows) : rows[i].as_of_date = row.as_of_date

\* partial unique index of recommendation_snapshots: one status='success'
\* row per as_of_date
ux_success_per_date_violated(rows, row) ==
    row.status = "success" /\ success_snapshot_exists(rows, row.as_of_date)

\* unique (snapshot_id, rank) and (snapshot_id, ticker) of recommendation_items:
\* item i collides with an item inserted earlier in the same transaction
ux_items_violated(items, i) ==
    \E j \in 1..(i - 1) :
        items[j].rank = items[i].rank \/ items[j].ticker = items[i].ticker

\* another session has inserted, and not yet committed, a success row for the
\* same date: the INSERT waits on the unique index until that transaction ends
InsertWaits(r, row) ==
    \E s \in Runs \ {r} :
        tx[s].open /\ tx[s].row.status = "success" /\ tx[s].row.as_of_date = row.as_of_date

\* variant: what a dropped transaction had inserted stays in the table
transaction_dropped_keeps_row(rows, t) ==
    IF t.open THEN Append(rows, t.row) ELSE rows

\* recommendations.rs:15-34: every INSERT of persist_success runs on `tx`;
\* when the call returns early or the process dies, `tx` is dropped without
\* commit and the server rolls it back: the committed rows are what they were
transaction_dropped(rows, t) == rows

\* variant: no error is recognised as a unique violation
is_unique_violation_never(e) == FALSE

\* errors persist_success can return: a sqlx database error with its SQLSTATE
\* and the constraint it names, or an error that is no database error
DbError(sqlstate, constraint) == [sqlstate |-> sqlstate, constraint |-> constraint]

UniqueSuccessPerDate == DbError("23505", "success_per_date")
UniqueItems == DbError("23505", "items")
OtherDbError == DbError("other", "none")
EnsureFailed == DbError("none", "none")

\* main.rs:238-248: a sqlx database error with SQLSTATE 23505
is_unique_violation(e) == e.sqlstate = "23505"

\* main.rs:184-201: persist_success returned Err(e); dropping the
\* transaction rolled it back
OnPersistSuccessErr(r, e) ==
    /\ tx' = [tx EXCEPT ![r] = NoTx]
    /\ pc' = [pc EXCEPT ![r] =
                IF is_unique_violation(e) THEN "release" ELSE "record_persist_error"]
    /\ hist' = [hist EXCEPT ![r] =
                  [Work(r, @) EXCEPT !.outcome = IF e = UniqueSuccessPerDate
                                                 THEN "unique_conflict"
                                                 ELSE IF e = UniqueItems
                                                 THEN "unique_conflict_items"
                                                 ELSE "persist_error"]]
    /\ llm' = [llm EXCEPT ![r] = NoLlm]
    /\ llm_result' = [llm_result EXCEPT ![r] = NoResult]
    /\ recommendation_snapshots' = transaction_dropped(recommendation_snapshots, tx[r])
    /\ UNCHANGED recommendation_items

\* the raw_llm_response jsonb column: the model keeps only whether the stored
\* value is NULL or a JSON document
stored_raw(raw) == IF raw = "null" THEN "null" ELSE "json"

\* recommendations.rs:10-28: ensure 20 items, begin, INSERT the snapshot row
PersistSuccessInsertSnapshot(r) ==
    /\ pc[r] = "persist_success"
    /\ UNCHANGED call
    /\ \E fault \in BOOLEAN :
        LET snapshot == llm_result[r].snapshot
            row == [as_of_date |-> snapshot.as_of_date, status |-> "success",
                    raw |-> stored_raw(llm_result[r].raw)]
        IN  IF Len(snapshot.items) # ITEM_COUNT THEN OnPersistSuccessErr(r, EnsureFailed)
            ELSE IF fault THEN OnPersistSuccessErr(r, OtherDbError)
            ELSE IF ux_success_per_date_violated(recommendation_snapshots, row)
            THEN OnPersistSuccessErr(r, UniqueSuccessPerDate)
            ELSE /\ ~InsertWaits(r, row)
                 /\ tx' = [tx EXCEPT ![r] =
                             [open |-> TRUE, row |-> row, items |-> snapshot.items]]
                 /\ pc' = [pc EXCEPT ![r] = "persist_items"]
                 /\ hist' = [hist EXCEPT ![r] = Work(r, @)]
                 /\ llm' = [llm EXCEPT ![r] = NoLlm]
                 /\ llm_result' = [llm_result EXCEPT ![r] = NoResult]
                 /\ UNCHANGED <<recommendation_snapshots, recommendation_items>>
    /\ UNCHANGED <<as_of_date, exit_code, advisory_locks>>

\* recommendations.rs:30-34 and 63-86: the loop of item INSERTs, then commit,
\* which publishes the snapshot row together with its items
PersistSuccessItemsAndCommit(r) ==
    /\ pc[r] = "persist_items"
    /\ UNCHANGED call
    /\ \E fault \in BOOLEAN :
        LET items == tx[r].items
            id == Len(recommendation_snapshots) + 1
        IN  IF \E i \in 1..Len(items) : ux_items_violated(items, i)
            THEN OnPersistSuccessErr(r, UniqueItems)
            ELSE IF fault THEN OnPersistSuccessErr(r, OtherDbError)
            ELSE /\ recommendation_snapshots' = Append(recommendation_snapshots, tx[r].row)
                 /\ recommendation_items' = recommendation_items \cup
                        {[snapshot_id |-> id, rank |-> items[i].rank,
                          ticker |-> items[i].ticker] : i \in 1..Len(items)}
                 /\ tx' = [tx EXCEPT ![r] = NoTx]
                 /\ pc' = [pc EXCEPT ![r] = "release"]
                 /\ hist' = [hist EXCEPT ![r] =
                               [Work(r, @) EXCEPT !.success_rows = @ + 1,
                                                  !.outcome = "persisted"]]
                 /\ UNCHANGED <<llm, llm_result>>
    /\ UNCHANGED <<as_of_date, exit_code, advisory_locks>>

\* recommendations.rs:38-61: one INSERT of a status='error' row, outside any
\* transaction; like every INSERT it is refused if it violates the unique
\* index of the table (the rows are then what they were)
persist_failure(rows, d, raw) ==
    LET row == [as_of_date |-> d, status |-> "error", raw |-> stored_raw(raw)]
    IN  IF ux_success_per_date_violated(rows, row) THEN rows ELSE Append(rows, row)

\* variant: the failure row never gets a raw response
raw_llm_response_none(result) == "null"

\* main.rs:207-217: the raw response attached to the failure row
raw_llm_response(result) == IF result.diag THEN result.raw ELSE "null"

\* main.rs:204-230: generation failed; persist_failure(...).await?
RecordFailure(r) ==
    /\ pc[r] = "record_failure"
    /\ UNCHANGED call
    /\ \E fault \in BOOLEAN :
        IF fault
        THEN /\ ExitProcess(r, 1)
             /\ hist' = [hist EXCEPT ![r] =
                           [Work(r, @) EXCEPT !.persist_failure_calls = @ + 1]]
             /\ UNCHANGED recommendation_snapshots
        ELSE /\ recommendation_snapshots' =
                    persist_failure(recommendation_snapshots, as_of_date[r],
                                    raw_llm_response(llm_result[r]))
             /\ pc' = [pc EXCEPT ![r] = "release"]
             /\ hist' = [hist EXCEPT ![r] =
                           [Work(r, @) EXCEPT !.persist_failure_calls = @ + 1,
                                              !.error_rows = @ + 1]]
             /\ llm' = [llm EXCEPT ![r] = NoLlm]
             /\ llm_result' = [llm_result EXCEPT ![r] = NoResult]
             /\ UNCHANGED <<exit_code, advisory_locks, tx>>
    /\ UNCHANGED <<as_of_date, recommendation_items>>

\* main.rs:187-197: persist_success failed with another error;
\* `let _ = persist_failure(...)` ignores the outcome
RecordPersistError(r) ==
    /\ pc[r] = "record_persist_error"
    /\ UNCHANGED call
    /\ \E fault \in BOOLEAN :
        /\ recommendation_snapshots' =
              IF fault THEN recommendation_snapshots
              ELSE persist_failure(recommendation_snapshots, as_of_date[r], "null")
        /\ hist' = [hist EXCEPT ![r] =
                      [Work(r, @) EXCEPT !.persist_failure_calls = @ + 1,
                                         !.error_rows = IF fault THEN @ ELSE @ + 1]]
    /\ pc' = [pc EXCEPT ![r] = "release"]
    /\ UNCHANGED <<as_of_date, exit_code, advisory_locks, recommendation_items,
                   tx, llm, llm_result>>

\* main.rs:151-154 and 233-235: `let _ = release_as_of_date_lock_conn(..)`,
\* then Ok(()): the unlock result is ignored and the process exits 0
Release(r) ==
    /\ pc[r] = "release"
    /\ UNCHANGED call
    /\ \E fault \in BOOLEAN :
        /\ pc' = [pc EXCEPT ![r] = "done"]
        /\ exit_code' = [exit_code EXCEPT ![r] = 0]
        /\ advisory_locks' =
              SessionEnd(IF fault THEN advisory_locks
                         ELSE pg_advisory_unlock(advisory_locks,
                                                 lock_key_for_date(as_of_date[r]), r), r)
    /\ hist' = [hist EXCEPT ![r].release_calls = @ + 1]
    /\ UNCHANGED <<as_of_date, recommendation_snapshots, recommendation_items,
                   tx, llm, llm_result>>

Running == {"acquire_lock", "idempotency_check", "build_universe", "generate",
            "generate_retry", "repair", "persist_success", "persist_items",
            "record_failure", "record_persist_error", "release"}

\* the worker process is killed: its sessions end, so Postgres drops the
\* session's advisory locks and rolls back its open transaction
Crash(r) ==
    /\ pc[r] \in Running
    /\ UNCHANGED call
    /\ pc' = [pc EXCEPT ![r] = "crashed"]
    /\ advisory_locks' = SessionEnd(advisory_locks, r)
    /\ tx' = [tx EXCEPT ![r] = NoTx]
    /\ llm' = [llm EXCEPT ![r] = NoLlm]
    /\ llm_result' = [llm_result EXCEPT ![r] = NoResult]
    /\ hist' = [hist EXCEPT ![r] =
                  [NoHist EXCEPT !.crashed_holding =
                      HoldsLock(r, lock_key_for_date(as_of_date[r]))]]
    /\ recommendation_snapshots' = transaction_dropped(recommendation_snapshots, tx[r])
    /\ UNCHANGED <<as_of_date, exit_code, recommendation_items>>

Step(r) ==
    \/ Start(r)
    \/ AcquireLock(r)
    \/ IdempotencyCheck(r)
    \/ BuildUniverse(r)
    \/ GenerateInitial(r)
    \/ GenerateRetry(r)
    \/ Repair(r)
    \/ PersistSuccessInsertSnapshot(r)
    \/ PersistSuccessItemsAndCommit(r)
    \/ RecordFailure(r)
    \/ RecordPersistError(r)
    \/ Release(r)

Next == \E r \in Runs : Step(r) \/ Crash(r)

Spec == Init /\ [][Next]_vars

\* every external call of a live process eventually returns
FairSpec == Spec /\ \A r \in Runs : WF_vars(Step(r))

\* ------------------------------------------------ storage API on its own
\* Sessions that call the writers of storage/recommendations.rs directly, with
\* any arguments and without the date lock, and handle the result as main()
\* does. This is the contract of the writers themselves: concurrent calls for
\* one date and snapshots that never went through the validator included.
CallPersistSuccess(r) ==
    /\ pc[r] = "idle"
    /\ UNCHANGED call
    /\ (IF r = 1 THEN TRUE ELSE pc[r - 1] # "idle")
    /\ \E d \in StartDates, shape \in ItemShapes, raw_json \in {"null", "initial"} :
        /\ as_of_date' = [as_of_date EXCEPT ![r] = d]
        /\ llm_result' = [llm_result EXCEPT ![r] =
              LlmOk([as_of_date |-> d, generated_at |-> "initial",
                     items |-> MakeItems(shape)], raw_json)]
    /\ pc' = [pc EXCEPT ![r] = "persist_success"]
    /\ UNCHANGED <<exit_code, advisory_locks, recommendation_snapshots,
                   recommendation_items, tx, llm, hist>>

CallPersistFailure(r) ==
    /\ pc[r] = "idle"
    /\ UNCHANGED call
    /\ (IF r = 1 THEN TRUE ELSE pc[r - 1] # "idle")
    /\ \E d \in StartDates,
          err \in {LlmPlainErr("request"), LlmDiagErr("http", "http_error_body")} :
        /\ as_of_date' = [as_of_date EXCEPT ![r] = d]
        /\ llm_result' = [llm_result EXCEPT ![r] = err]
    /\ pc' = [pc EXCEPT ![r] = "record_failure"]
    /\ UNCHANGED <<exit_code, advisory_locks, recommendation_snapshots,
                   recommendation_items, tx, llm, hist>>

StorageStep(r) ==
    \/ CallPersistSuccess(r)
    \/ CallPersistFailure(r)
    \/ PersistSuccessInsertSnapshot(r)
    \/ PersistSuccessItemsAndCommit(r)
    \/ RecordFailure(r)
    \/ RecordPersistError(r)
    \/ Release(r)

StorageNext == \E r \in Runs : StorageStep(r) \/ Crash(r)

StorageSpec == Init /\ [][StorageNext]_vars

\* ------------------------------------------------------------ read service
\* variant: the query has no status filter
fetch_snapshot_any_status(rows, d) ==
    LET matching == {i \in 1..Len(rows) : d = 0 \/ rows[i].as_of_date = d}
    IN  IF matching = {} THEN 0
        ELSE CHOOSE i \in matching : \A j \in matching : j <= i

\* api/main.rs:180-209: the id of the status='success' row for date d, or of
\* the latest date when d = 0 (None); ORDER BY as_of_date DESC, generated_at
\* DESC LIMIT 1, rows of one date being generated in the order of their ids;
\* 0 when there is no such row
fetch_snapshot(rows, d) ==
    LET matching == {i \in 1..Len(rows) :
                        rows[i].status = "success" /\ (d = 0 \/ rows[i].as_of_date = d)}
    IN  IF matching = {} THEN 0
        ELSE CHOOSE i \in matching :
                \A j \in matching :
                    \/ rows[j].as_of_date < rows[i].as_of_date
                    \/ (rows[j].as_of_date = rows[i].as_of_date /\ j <= i)

\* WHERE snapshot_id = $1
ItemsOf(items, id) == {it \in items : it.snapshot_id = id}

\* api/main.rs:227-268: the items of the snapshot, ORDER BY rank ASC
RECURSIVE SortedByRank(_)
SortedByRank(S) ==
    IF S = {} THEN <<>>
    ELSE LET first == CHOOSE it \in S : \A x \in S : it.rank <= x.rank
         IN  <<first>> \o SortedByRank(S \ {first})

fetch_items(items, snapshot_id) == SortedByRank(ItemsOf(items, snapshot_id))

\* api/main.rs:102-147: GET /snapshots/latest (d = 0) and GET /snapshots/{date}
get_snapshot(rows, items, d) ==
    LET id == fetch_snapshot(rows, d)
    IN  IF id = 0
        THEN [status |-> "NOT_FOUND", snapshot_id |-> 0, as_of_date |-> 0,
              items |-> <<>>]
        ELSE [status |-> "OK", snapshot_id |-> id, as_of_date |-> rows[id].as_of_date,
              items |-> fetch_items(items, id)]

\* ------------------------------------- candidate output of a model response
\* content blocks of a CreateMessageResponse (ContentBlock): text blocks with
\* a JSON document or with prose, tool_use blocks by name and by whether the
\* input decodes, thinking, redacted_thinking and unknown blocks
Block(type, name, body) == [type |-> type, name |-> name, body |-> body]

ContentBlocks ==
    {Block("text", "", "json_text"), Block("text", "", "prose"),
     Block("tool_use", "emit_snapshot", "tool_input"),
     Block("tool_use", "emit_snapshot", "undecodable_input"),
     Block("tool_use", "other_tool", "tool_input"),
     Block("thinking", "", "json_thinking"),
     Block("redacted_thinking", "", "data"),
     Block("unknown", "", "")}

Contents == UNION {[1..n -> ContentBlocks] : n \in 0..MaxBlocks}

\* anthropic.rs:234-258: the text of the text blocks, in order (joined by
\* newlines, kept here as the list of the pieces)
RECURSIVE response_text(_)
response_text(content) ==
    IF content = <<>> THEN <<>>
    ELSE (IF Head(content).type = "text" THEN <<Head(content).body>> ELSE <<>>)
         \o response_text(Tail(content))

\* anthropic.rs:260-271: the input of the first tool_use block named
\* emit_snapshot: Err when it does not decode, None when there is no such block
RECURSIVE response_tool_snapshot(_)
response_tool_snapshot(content) ==
    IF content = <<>> THEN [ok |-> TRUE, some |-> FALSE, input |-> ""]
    ELSE IF Head(content).type = "tool_use" /\ Head(content).name = "emit_snapshot"
    THEN IF Head(content).body = "undecodable_input"
         THEN [ok |-> FALSE, some |-> FALSE, input |-> ""]
         ELSE [ok |-> TRUE, some |-> TRUE, input |-> Head(content).body]
    ELSE response_tool_snapshot(Tail(content))

Candidate(channel, value) == [channel |-> channel, value |-> value]

\* anthropic.rs:379-387: the candidate output of the initial response and of
\* the truncation retry
first_response_candidate(content) ==
    LET tool == response_tool_snapshot(content)
    IN  IF ~tool.ok THEN Candidate("error", <<>>)
        ELSE IF tool.some THEN Candidate("tool_use", <<tool.input>>)
        ELSE Candidate("text", response_text(content))

\* anthropic.rs:318-319: the candidate output of a repair response
repair_response_candidate(content) == Candidate("text", response_text(content))

Requests == {"initial", "retry", "repair1", "repair2"}

\* a response to one of the client's requests arrives
ReceiveResponse ==
    /\ call = NoCall
    /\ \E request \in Requests, content \in Contents :
          call' = [fn |-> "handle_response", request |-> request,
                   content |-> content, pc |-> "received",
                   candidate |-> Candidate("none", <<>>)]
    /\ UNCHANGED <<pc, as_of_date, exit_code, advisory_locks,
                   recommendation_snapshots, recommendation_items, tx, llm,
                   llm_result, hist>>

\* the client takes the candidate output from the response
ExtractCandidate ==
    /\ call.fn = "handle_response"
    /\ call.pc = "received"
    /\ call' = [call EXCEPT
                  !.pc = "extracted",
                  !.candidate =
                      IF call.request \in {"initial", "retry"}
                      THEN first_response_candidate(call.content)
                      ELSE repair_response_candidate(call.content)]
    /\ UNCHANGED <<pc, as_of_date, exit_code, advisory_locks,
                   recommendation_snapshots, recommendation_items, tx, llm,
                   llm_result, hist>>

ExtractNext == ReceiveResponse \/ ExtractCandidate

ExtractSpec == Init /\ [][ExtractNext]_vars

\* ------------------------------------------------------ contract validator
\* The validator called on its own with complete items. A string is the
\* sequence of its characters; Option<T> is <<>> (None) or <<v>> (Some(v));
\* a confidence is kept in units of 1e-7, so 1.0 is CONFIDENCE_ONE.
CONFIDENCE_ONE == 10000000

None == <<>>

Some(v) == <<v>>

WhiteSpace == {" ", "\t"}

RECURSIVE trim_start(_)
trim_start(s) ==
    IF s # <<>> /\ Head(s) \in WhiteSpace THEN trim_start(Tail(s)) ELSE s

RECURSIVE trim_end(_)
trim_end(s) ==
    IF s # <<>> /\ s[Len(s)] \in WhiteSpace
    THEN trim_end(SubSeq(s, 1, Len(s) - 1)) ELSE s

\* str::trim
trim(s) == trim_end(trim_start(s))

\* variant: the upper bound is exclusive
confidence_in_range_exclusive(confidence) ==
    confidence >= 0 /\ confidence < CONFIDENCE_ONE

\* contract.rs:99: (0.0..=1.0).contains(&confidence)
confidence_in_range(confidence) ==
    confidence >= 0 /\ confidence <= CONFIDENCE_ONE

\* contract.rs:78-102: the checks of validate_and_into_item after the rank
item_fields_ok(item) ==
    /\ trim(item.ticker) # <<>>
    /\ trim(item.name) # <<>>
    /\ Len(item.rationale) = 3
    /\ \A k \in 1..3 : trim(item.rationale[k]) # <<>>
    /\ item.confidence # None => confidence_in_range(item.confidence[1])

\* variant: empty notes are filtered out before trimming, not after
normalize_risk_notes_filter_first(risk_notes) ==
    IF risk_notes = None THEN None
    ELSE IF risk_notes[1] = <<>> THEN None
    ELSE Some(trim(risk_notes[1]))

\* contract.rs:104-107: .map(trim).filter(non-empty)
normalize_risk_notes(risk_notes) ==
    IF risk_notes = None THEN None
    ELSE IF trim(risk_notes[1]) = <<>> THEN None
    ELSE Some(trim(risk_notes[1]))

\* contract.rs:109-116: the RecommendationItem of an accepted item
validate_and_into_item(item) ==
    [rank |-> item.rank, ticker |-> trim(item.ticker), name |-> trim(item.name),
     rationale |-> [k \in 1..3 |-> trim(item.rationale[k])],
     risk_notes |-> normalize_risk_notes(item.risk_notes),
     confidence |-> item.confidence]

\* contract.rs:25-59: Ok(RecommendationSnapshot) or Err
validate_and_into_snapshot(out, expected_as_of_date) ==
    IF validate_ok(out, expected_as_of_date)
       /\ \A i \in 1..Len(out.items) : item_fields_ok(out.items[i])
    THEN [ok |-> TRUE,
          snapshot |-> [as_of_date |-> out.as_of_date,
                        generated_at |-> out.generated_at,
                        items |-> [i \in 1..Len(out.items) |->
                                      validate_and_into_item(out.items[i])]]]
    ELSE [ok |-> FALSE, snapshot |-> NoSnapshot]

\* serde_json of a RecommendationSnapshot: dates and timestamps become
\* strings, None becomes null, the rationale array a list
JsonNull == [json |-> "null"]

JsonValue(kind, v) == [json |-> kind, value |-> v]

to_json_option(kind, v) == IF v = None THEN JsonNull ELSE JsonValue(kind, v[1])

to_json(snapshot) ==
    [as_of_date |-> JsonValue("string", snapshot.as_of_date),
     generated_at |-> JsonValue("string", snapshot.generated_at),
     items |-> [i \in 1..Len(snapshot.items) |->
                  [rank |-> JsonValue("number", snapshot.items[i].rank),
                   ticker |-> JsonValue("string", snapshot.items[i].ticker),
                   name |-> JsonValue("string", snapshot.items[i].name),
                   rationale |-> [k \in 1..Len(snapshot.items[i].rationale) |->
                       JsonValue("string", snapshot.items[i].rationale[k])],
                   risk_notes |->
                       to_json_option("string", snapshot.items[i].risk_notes),
                   confidence |->
                       to_json_option("number", snapshot.items[i].confidence)]]]

from_json_option(v) == IF v.json = "null" THEN None ELSE Some(v.value)

\* serde_json::from_str::<LlmRecommendationSnapshot>
from_json(doc) ==
    [as_of_date |-> doc.as_of_date.value,
     generated_at |-> doc.generated_at.value,
     items |-> [i \in 1..Len(doc.items) |->
                  [rank |-> doc.items[i].rank.value,
                   ticker |-> doc.items[i].ticker.value,
                   name |-> doc.items[i].name.value,
                   rationale |-> [k \in 1..Len(doc.items[i].rationale) |->
                                     doc.items[i].rationale[k].value],
                   risk_notes |-> from_json_option(doc.items[i].risk_notes),
                   confidence |-> from_json_option(doc.items[i].confidence)]]]

\* json.rs:28-36: parse_snapshot (without the extraction of the document from
\* the surrounding text)
parse_snapshot(doc, expected_as_of_date) ==
    validate_and_into_snapshot(from_json(doc), expected_as_of_date)

\* item fields a model may write
TickerTexts == {<<"K", "1">>, <<" ", "K", "1", "\t">>, <<" ">>, <<>>}

NameTexts == {<<"n">>, <<" ", "n", " ", "m", " ">>, <<"\t">>}

Line == <<"l">>

Rationales ==
    {<<Line, Line, Line>>, <<Line, Line>>, <<Line, Line, Line, Line>>,
     <<Line, <<" ">>, Line>>, <<<<" ", "l">>, Line, <<"l", " ", "l", " ">>>>}

RiskNotes ==
    {None, Some(<<>>), Some(<<" ", "\t">>), Some(<<"r">>), Some(<<" ", "r", " ">>)}

Confidences ==
    {None, Some(0 - 1), Some(0), Some(CONFIDENCE_ONE \div 2), Some(CONFIDENCE_ONE),
     Some(CONFIDENCE_ONE + 1)}

ItemFields ==
    [ticker : TickerTexts, name : NameTexts, rationale : Rationales,
     risk_notes : RiskNotes, confidence : Confidences]

GoodFields ==
    [ticker |-> <<"K", "1">>, name |-> <<"n">>, rationale |-> <<Line, Line, Line>>,
     risk_notes |-> None, confidence |-> Some(CONFIDENCE_ONE \div 2)]

\* rank lists a model may write: 1..20, 19 items, none, 21 items, a repeated
\* rank (so one is missing), a rank below 1, a rank above 20, and 1..20 in
\* another order
RankShapes ==
    {"good", "short", "empty", "long", "dup_rank", "rank_zero", "rank_high",
     "reversed"}

RanksOf(shape) ==
    IF shape = "short" THEN [i \in 1..(ITEM_COUNT - 1) |-> i]
    ELSE IF shape = "empty" THEN <<>>
    ELSE IF shape = "long" THEN [i \in 1..(ITEM_COUNT + 1) |-> i]
    ELSE IF shape = "dup_rank"
    THEN [i \in 1..ITEM_COUNT |-> IF i = ITEM_COUNT THEN 1 ELSE i]
    ELSE IF shape = "rank_zero"
    THEN [i \in 1..ITEM_COUNT |-> IF i = 1 THEN 0 ELSE i]
    ELSE IF shape = "rank_high"
    THEN [i \in 1..ITEM_COUNT |-> IF i = ITEM_COUNT THEN ITEM_COUNT + 1 ELSE i]
    ELSE IF shape = "reversed" THEN [i \in 1..ITEM_COUNT |-> ITEM_COUNT + 1 - i]
    ELSE [i \in 1..ITEM_COUNT |-> i]

\* an LlmRecommendationSnapshot: ranks of `shape`, the fields `f` in item
\* `at` and well-formed fields in every other item
CandidateOutput(d, shape, at, f) ==
    [as_of_date |-> d, generated_at |-> "initial",
     items |-> [i \in 1..Len(RanksOf(shape)) |->
                  LET g == IF i = at THEN f ELSE GoodFields
                  IN  [rank |-> RanksOf(shape)[i],
                       ticker |-> IF i = at THEN g.ticker ELSE <<"K", ToString(i)>>,
                       name |-> g.name, rationale |-> g.rationale,
                       risk_notes |-> g.risk_notes, confidence |-> g.confidence]]]

CandidateOutputs ==
    {CandidateOutput(d, shape, 1, GoodFields) : d \in Dates, shape \in RankShapes}
    \cup {CandidateOutput(d, "good", at, f) :
            d \in Dates, at \in {1, ITEM_COUNT}, f \in ItemFields}

\* where the client validates an output: the tool_use input of the first
\* response (anthropic.rs:381), the text of the first response
\* (anthropic.rs:296) and the text of a repair response (anthropic.rs:319)
ValidationSites == {"tool_use", "text", "repair"}

\* the client has an output to validate for the date of its input
CallValidator ==
    /\ call = NoCall
    /\ \E expected \in Dates, out \in CandidateOutputs, via \in ValidationSites :
          call' = [fn |-> "validate", via |-> via, expected |-> expected,
                   input |-> out,
                   pc |-> "called", result |-> [ok |-> FALSE, snapshot |-> NoSnapshot],
                   again |-> [ok |-> FALSE, snapshot |-> NoSnapshot]]
    /\ UNCHANGED <<pc, as_of_date, exit_code, advisory_locks,
                   recommendation_snapshots, recommendation_items, tx, llm,
                   llm_result, hist>>

Validate ==
    /\ call.fn = "validate"
    /\ call.pc = "called"
    /\ call' = [call EXCEPT
                  !.pc = "validated",
                  !.result =
                      IF call.via = "tool_use"
                      THEN validate_and_into_snapshot(call.input, call.expected)
                      ELSE parse_snapshot(to_json(call.input), call.expected)]
    /\ UNCHANGED <<pc, as_of_date, exit_code, advisory_locks,
                   recommendation_snapshots, recommendation_items, tx, llm,
                   llm_result, hist>>

\* the validated snapshot is serialized and validated again
Revalidate ==
    /\ call.fn = "validate"
    /\ call.pc = "validated"
    /\ call.result.ok
    /\ call' = [call EXCEPT
                  !.pc = "revalidated",
                  !.again = parse_snapshot(to_json(call.result.snapshot),
                                           call.expected)]
    /\ UNCHANGED <<pc, as_of_date, exit_code, advisory_locks,
                   recommendation_snapshots, recommendation_items, tx, llm,
                   llm_result, hist>>

ValidatorNext == CallValidator \/ Validate \/ Revalidate

ValidatorSpec == Init /\ [][ValidatorNext]_vars

\* -------------------------------------------------------- universe builder
\* build_candidate_universe_db called on its own against a table of
\* stock_features_daily rows. A trading_value is kept in units of 1e7 and a
\* ret_1d in units of 0.001, so that trading_value / 1e9 and ret_1d * 10 are
\* both counted in hundredths; a ticker is its six-digit code.
UPPER ==
    <<"A", "B", "C", "D", "E", "F", "G", "H", "I", "J", "K", "L", "M", "N", "O",
      "P", "Q", "R", "S", "T", "U", "V", "W", "X", "Y", "Z">>

LOWER ==
    <<"a", "b", "c", "d", "e", "f", "g", "h", "i", "j", "k", "l", "m", "n", "o",
      "p", "q", "r", "s", "t", "u", "v", "w", "x", "y", "z">>

to_ascii_lowercase(s) ==
    [i \in 1..Len(s) |->
        IF \E k \in 1..Len(UPPER) : UPPER[k] = s[i]
        THEN LOWER[CHOOSE k \in 1..Len(UPPER) : UPPER[k] = s[i]]
        ELSE s[i]]

\* str::contains
contains(s, token) ==
    \E i \in 0..(Len(s) - Len(token)) : SubSeq(s, i + 1, i + Len(token)) = token

\* universe.rs:191: markers looked for in the lower-cased name
EtfMarkersLower == {<<"e", "t", "f">>, <<"e", "t", "n">>}

\* universe.rs:198-209: markers looked for in the name as written
EtfMarkers ==
    {<<"K", "O", "D", "E", "X">>, <<"T", "I", "G", "E", "R">>,
     <<"K", "O", "S", "E", "F">>, <<"K", "B", "S", "T", "A", "R">>,
     <<"A", "R", "I", "R", "A", "N", "G">>, <<"H", "A", "N", "A", "R", "O">>,
     <<"S", "O", "L">>, <<"A", "C", "E">>,
     <<"T", "I", "M", "E", "F", "O", "L", "I", "O">>, <<"P", "L", "U", "S">>,
     <<"1", "Q">>, <<"R", "I", "S", "E">>}

\* universe.rs:182-210
is_etf_or_etn_name(name) ==
    LET s == trim(name)
    IN  IF s = <<>> THEN FALSE
        ELSE \/ \E m \in EtfMarkersLower : contains(to_ascii_lowercase(s), m)
             \/ \E m \in EtfMarkers : contains(s, m)

\* names of listed instruments: companies, funds and notes
NamePool ==
    <<<<"S", "a", "m", "s", "u", "n", "g">>,
      <<"K", "O", "D", "E", "X", " ", "2", "0", "0">>,
      <<"H", "y", "u", "n", "d", "a", "i">>,
      <<"F", "o", "o", " ", "E", "t", "f">>,
      <<"k", "o", "d", "e", "x">>,
      <<"N", "a", "v", "e", "r">>,
      <<" ", "T", "I", "G", "E", "R", " ", "S", "P">>,
      <<"P", "o", "s", "c", "o">>,
      <<" ">>,
      <<"K", "a", "k", "a", "o">>>>

EtfNameTable == [k \in 1..Len(NamePool) |-> is_etf_or_etn_name(NamePool[k])]

\* tables of stock_features_daily: n rows for the date asked for, in no
\* order, and a few rows of every other date with the highest trading values
TableKinds == {"spread", "ties", "nulls"}

TableRow(i, kind, d) ==
    [as_of_date |-> d, ticker |-> i, name |-> (i % Len(NamePool)) + 1,
     trading_value |->
        IF kind = "ties" THEN Some(100)
        ELSE IF kind = "nulls" /\ i % 4 = 0 THEN None
        ELSE Some(((i * 37) % 101) * 5),
     ret_1d |->
        IF kind = "nulls" /\ i % 3 = 0 THEN None
        ELSE Some((((i * 7) % 21) * 10) - 100)]

OtherDateRows(d) ==
    LET others == {e \in Dates : e # d}
    IN  {[as_of_date |-> e, ticker |-> i, name |-> 1,
          trading_value |-> Some(100000), ret_1d |-> Some(0)] :
            e \in others, i \in 1..3}

RECURSIVE SetToSeq(_)
SetToSeq(S) ==
    IF S = {} THEN <<>>
    ELSE LET x == CHOOSE y \in S : TRUE IN <<x>> \o SetToSeq(S \ {x})

Table(t) ==
    SetToSeq(OtherDateRows(t.as_of_date))
    \o [i \in 1..t.n |-> TableRow(i, t.kind, t.as_of_date)]

\* universe.rs:99: (size.saturating_mul(oversample)).max(size)
universe_limit(opts) ==
    IF opts.size * opts.oversample >= opts.size THEN opts.size * opts.oversample
    ELSE opts.size

\* ORDER BY trading_value DESC NULLS LAST, ticker ASC
by_trading_value_desc(a, b) ==
    IF a.trading_value = None \/ b.trading_value = None
    THEN \/ a.trading_value # None
         \/ (b.trading_value = None /\ a.ticker < b.ticker)
    ELSE \/ a.trading_value[1] > b.trading_value[1]
         \/ (a.trading_value[1] = b.trading_value[1] /\ a.ticker < b.ticker)

\* universe.rs:101-131: WHERE as_of_date = $1 [AND trading_value IS NOT NULL
\* AND trading_value >= $2]
query_matches(row, d, opts) ==
    /\ row.as_of_date = d
    /\ opts.min_trading_value # None =>
          /\ row.trading_value # None
          /\ row.trading_value[1] >= opts.min_trading_value[1]

take(seq, n) == SubSeq(seq, 1, IF Len(seq) < n THEN Len(seq) ELSE n)

\* universe.rs:101-131: the rows the query returns
query_stock_features(table, d, opts) ==
    LET Matches(row) == query_matches(row, d, opts)
    IN  take(SortSeq(SelectSeq(table, Matches), by_trading_value_desc),
             universe_limit(opts))

\* variant: the one-day return does not count
score_trading_value_only(row) ==
    IF row.trading_value = None THEN 0 ELSE row.trading_value[1]

\* universe.rs:152-156: (tv / 1e9) + (ret_1d * 10.0), in hundredths
score(row) ==
    (IF row.trading_value = None THEN 0 ELSE row.trading_value[1])
    + (IF row.ret_1d = None THEN 0 ELSE row.ret_1d[1])

\* universe.rs:158-165
Scored(row) ==
    [score |-> score(row),
     candidate |-> [ticker |-> row.ticker, name |-> row.name,
                    features |-> [ret_1d |-> row.ret_1d]]]

\* universe.rs:168-172: descending score, then ascending ticker
by_score_desc(a, b) ==
    \/ a.score > b.score
    \/ (a.score = b.score /\ a.candidate.ticker < b.candidate.ticker)

\* variant: every scored candidate is returned
take_candidates_all(scored, size) ==
    [i \in 1..Len(scored) |-> scored[i].candidate]

\* universe.rs:174-177: scored.into_iter().take(opts.size)
take_candidates(scored, size) ==
    [i \in 1..Len(take(scored, size)) |-> scored[i].candidate]

UniverseOk(scored, candidates) ==
    [ok |-> TRUE, err |-> 0, scored |-> scored, candidates |-> candidates]

UniverseErr(err) == [ok |-> FALSE, err |-> err, scored |-> <<>>, candidates |-> <<>>]

\* universe.rs:136-179: filter, ensure, score, sort, take
select_candidates(rows, opts) ==
    LET NotEtf(row) == ~EtfNameTable[row.name]
        kept == SelectSeq(rows, NotEtf)
    IN  IF ~(Len(kept) >= opts.size) THEN UniverseErr(InsufficientCandidates)
        ELSE LET scored == SortSeq([i \in 1..Len(kept) |-> Scored(kept[i])],
                                   by_score_desc)
             IN  UniverseOk(scored, take_candidates(scored, opts.size))

UniverseOptions ==
    [size : {MIN_CANDIDATES - 1, MIN_CANDIDATES, MAX_CANDIDATES, MAX_CANDIDATES + 1},
     oversample : 0..2,
     min_trading_value : {None, Some(250)}]

Tables ==
    [as_of_date : Dates, kind : TableKinds,
     n : {DEFAULT_UNIVERSE_SIZE - 50, DEFAULT_UNIVERSE_SIZE + 60,
          2 * MAX_CANDIDATES}]

\* main.rs:163: the builder is called for the date of the run
CallBuildUniverse ==
    /\ call = NoCall
    /\ \E opts \in UniverseOptions, t \in Tables, query_fails \in BOOLEAN :
          call' = [fn |-> "build_candidate_universe_db", opts |-> opts,
                   as_of_date |-> t.as_of_date, table |-> t,
                   query_fails |-> query_fails, pc |-> "called", queries |-> 0,
                   rows |-> <<>>, result |-> UniverseErr(0)]
    /\ UNCHANGED <<pc, as_of_date, exit_code, advisory_locks,
                   recommendation_snapshots, recommendation_items, tx, llm,
                   llm_result, hist>>

\* universe.rs:92-131: the two ensure! on the options, then the query
QueryStockFeatures ==
    /\ call.fn = "build_candidate_universe_db"
    /\ call.pc = "called"
    /\ call' =
          IF ~(call.opts.size >= MIN_CANDIDATES /\ call.opts.size <= MAX_CANDIDATES)
             \/ ~(call.opts.oversample >= 1)
          THEN [call EXCEPT !.pc = "returned", !.result = UniverseErr(InvalidOptions)]
          ELSE IF call.query_fails
          THEN [call EXCEPT !.pc = "returned", !.queries = 1,
                            !.result = UniverseErr(QueryError)]
          ELSE [call EXCEPT !.pc = "fetched", !.queries = 1,
                            !.rows = query_stock_features(Table(call.table),
                                                          call.as_of_date, call.opts)]
    /\ UNCHANGED <<pc, as_of_date, exit_code, advisory_locks,
                   recommendation_snapshots, recommendation_items, tx, llm,
                   llm_result, hist>>

\* universe.rs:136-179
SelectCandidates ==
    /\ call.fn = "build_candidate_universe_db"
    /\ call.pc = "fetched"
    /\ call' = [call EXCEPT !.pc = "returned",
                            !.result = select_candidates(call.rows, call.opts)]
    /\ UNCHANGED <<pc, as_of_date, exit_code, advisory_locks,
                   recommendation_snapshots, recommendation_items, tx, llm,
                   llm_result, hist>>

UniverseNext == CallBuildUniverse \/ QueryStockFeatures \/ SelectCandidates

UniverseSpec == Init /\ [][UniverseNext]_vars

\* ------------------------------------------------------- generation input
\* GenerateInput::try_new called on its own with a candidate list of every
\* length around the two bounds, then the request built from the input
CandidateCounts == 0..(MAX_CANDIDATES + MIN_CANDIDATES)

\* main.rs:166: the candidate list is handed to try_new
CallTryNew ==
    /\ call = NoCall
    /\ \E n \in CandidateCounts, d \in Dates :
          call' = [fn |-> "try_new", as_of_date |-> d, candidates |-> n,
                   pc |-> "called", ok |-> FALSE, requests |-> 0,
                   request_candidates |-> 0]
    /\ UNCHANGED <<pc, as_of_date, exit_code, advisory_locks,
                   recommendation_snapshots, recommendation_items, tx, llm,
                   llm_result, hist>>

\* llm/mod.rs:17-33: ensure!, then Ok(Self { as_of_date, candidates })
TryNew ==
    /\ call.fn = "try_new"
    /\ call.pc = "called"
    /\ call' = [call EXCEPT !.pc = "returned", !.ok = try_new_ok(call.candidates)]
    /\ UNCHANGED <<pc, as_of_date, exit_code, advisory_locks,
                   recommendation_snapshots, recommendation_items, tx, llm,
                   llm_result, hist>>

\* main.rs:166-169, anthropic.rs:351-363: `?` returns on Err; on Ok the
\* input is passed to the client, whose request carries input.candidates
BuildRequest ==
    /\ call.fn = "try_new"
    /\ call.pc = "returned"
    /\ call.ok
    /\ call' = [call EXCEPT !.pc = "requested", !.requests = 1,
                            !.request_candidates = call.candidates]
    /\ UNCHANGED <<pc, as_of_date, exit_code, advisory_locks,
                   recommendation_snapshots, recommendation_items, tx, llm,
                   llm_result, hist>>

GenerateInputNext == CallTryNew \/ TryNew \/ BuildRequest

GenerateInputSpec == Init /\ [][GenerateInputNext]_vars

\* ------------------------------------------------------- market date (KST)
\* crates/core/src/time/kr_market.rs.  A date is its day number from the
\* common era (as Dates above); a time is a day and a minute of that day.
KST_OFFSET_SECS == 9 * 3600
CLOSE_CUTOFF_HOUR_KST == 16
CLOSE_CUTOFF_MINUTE_KST == 0
MINUTES_PER_DAY == 24 * 60

\* the fixed holidays of configured_holidays() that fall in the days modelled
HOLIDAY_2025_12_25 == 739610
HOLIDAY_2026_01_01 == 739617

\* chrono weekday of a day number: 0 = Monday .. 6 = Sunday
weekday(date) == (date - 1) % 7

\* variant: Sunday is not taken for a weekend day
is_weekend_saturday_only(date) == weekday(date) = 5

is_weekend(date) == weekday(date) \in {5, 6}

\* a part of KR_MARKET_HOLIDAYS: a date text or something that does not parse
DateText(day) == [text |-> "date", day |-> day]
Malformed == [text |-> "malformed"]

parse_from_str(s) == IF s.text = "date" THEN Some(s.day) ELSE None

configured_holidays(env) ==
    {HOLIDAY_2025_12_25, HOLIDAY_2026_01_01}
        \cup {s.day : s \in {p \in env : parse_from_str(p) # None}}

\* now_utc.with_timezone(&kst)
with_timezone(now_utc) ==
    LET t == now_utc.minute + (KST_OFFSET_SECS \div 60)
    IN  [day |-> now_utc.day + (t \div MINUTES_PER_DAY),
         hour |-> (t % MINUTES_PER_DAY) \div 60,
         minute |-> t % 60]

\* variant: the cutoff hour itself still counts as before the close
cutoff_reached_after_hour(now_kst) == now_kst.hour > CLOSE_CUTOFF_HOUR_KST

\* (hour, minute) >= (16, 0), compared as tuples
cutoff_reached(now_kst) ==
    \/ now_kst.hour > CLOSE_CUTOFF_HOUR_KST
    \/ /\ now_kst.hour = CLOSE_CUTOFF_HOUR_KST
       /\ now_kst.minute >= CLOSE_CUTOFF_MINUTE_KST

base_date(now_utc) ==
    LET now_kst == with_timezone(now_utc)
    IN  IF cutoff_reached(now_kst) THEN now_kst.day ELSE now_kst.day - 1

NowDays == (HOLIDAY_2025_12_25 - 1)..(HOLIDAY_2026_01_01 + 4)

UtcMinutes ==
    {0, (7 * 60) - 1, 7 * 60, (7 * 60) + 1, (15 * 60) - 1, 15 * 60,
     MINUTES_PER_DAY - 1}

EnvHolidayParts ==
    {DateText(HOLIDAY_2025_12_25 + 1), DateText(HOLIDAY_2025_12_25 + 4),
     DateText(HOLIDAY_2026_01_01 - 1), DateText(HOLIDAY_2026_01_01 + 1),
     Malformed}

DateArgs == {None, Some(DateText(HOLIDAY_2026_01_01 + 2)), Some(Malformed)}

\* main.rs: resolve_as_of_date(args.as_of_date, Utc::now())
CallResolveAsOfDate ==
    /\ call = NoCall
    /\ \E arg \in DateArgs, day \in NowDays, minute \in UtcMinutes,
          env \in SUBSET EnvHolidayParts :
          call' = [fn |-> "resolve_as_of_date", as_of_date_arg |-> arg,
                   now_utc |-> [day |-> day, minute |-> minute], env |-> env,
                   pc |-> "called", date |-> 0, holidays |-> {},
                   ok |-> FALSE, iterations |-> 0]
    /\ UNCHANGED <<pc, as_of_date, exit_code, advisory_locks,
                   recommendation_snapshots, recommendation_items, tx, llm,
                   llm_result, hist>>

\* kr_market.rs:16-31: the explicit argument, or the base date and holidays
ResolveBaseDate ==
    /\ call.fn = "resolve_as_of_date"
    /\ call.pc = "called"
    /\ call' =
          IF call.as_of_date_arg # None
          THEN LET parsed == parse_from_str(call.as_of_date_arg[1])
               IN  IF parsed # None
                   THEN [call EXCEPT !.pc = "returned", !.ok = TRUE,
                                     !.date = parsed[1]]
                   ELSE [call EXCEPT !.pc = "returned", !.ok = FALSE]
          ELSE [call EXCEPT !.pc = "rollback",
                            !.date = base_date(call.now_utc),
                            !.holidays = configured_holidays(call.env)]
    /\ UNCHANGED <<pc, as_of_date, exit_code, advisory_locks,
                   recommendation_snapshots, recommendation_items, tx, llm,
                   llm_result, hist>>

\* kr_market.rs:32-34: one iteration of the while loop
RollBack ==
    /\ call.fn = "resolve_as_of_date"
    /\ call.pc = "rollback"
    /\ is_weekend(call.date) \/ call.date \in call.holidays
    /\ call' = [call EXCEPT !.date = @ - 1, !.iterations = @ + 1]
    /\ UNCHANGED <<pc, as_of_date, exit_code, advisory_locks,
                   recommendation_snapshots, recommendation_items, tx, llm,
                   llm_result, hist>>

\* kr_market.rs:32, 36: the loop condition is false, Ok(date)
ReturnDate ==
    /\ call.fn = "resolve_as_of_date"
    /\ call.pc = "rollback"
    /\ ~(is_weekend(call.date) \/ call.date \in call.holidays)
    /\ call' = [call EXCEPT !.pc = "returned", !.ok = TRUE]
    /\ UNCHANGED <<pc, as_of_date, exit_code, advisory_locks,
                   recommendation_snapshots, recommendation_items, tx, llm,
                   llm_result, hist>>

ResolveNext == CallResolveAsOfDate \/ ResolveBaseDate \/ RollBack \/ ReturnDate

\* the function runs on one thread: a step that can be taken is taken
ResolveSpec == Init /\ [][ResolveNext]_vars /\ WF_vars(ResolveNext)

\* ------------------------------------------------- pool-based lock helpers
\* lock.rs:12-21 and 37-46 called one after the other on one pool.  Every
\* pooled connection is a Postgres session of its own (sessions 1..5 here,
\* session 0 being a session of another process); which idle connection
\* acquire() hands out is up to the pool.
MAX_CONNECTIONS == 5

PoolSessions == 1..MAX_CONNECTIONS

ForeignSession == 0

\* pool.acquire(): an idle connection, or a new one when none is open
pool_acquire(open) == IF open = {} THEN {1} ELSE open

CallLockHelpers ==
    /\ call = NoCall
    /\ \E d \in Dates :
          call' = [fn |-> "try_acquire_as_of_date_lock", as_of_date |-> d,
                   pc |-> "called", open |-> {}, lock_conn |-> 0,
                   acquired |-> FALSE, unlock_conn |-> 0,
                   foreign_acquired |-> FALSE]
    /\ UNCHANGED <<pc, as_of_date, exit_code, advisory_locks,
                   recommendation_snapshots, recommendation_items, tx, llm,
                   llm_result, hist>>

\* other tasks of the process query through the same pool at the same time:
\* the pool opens more connections, and they stay open, idle, afterwards
PoolUse ==
    /\ call.fn = "try_acquire_as_of_date_lock"
    /\ call.pc \in {"called", "locked"}
    /\ \E n \in PoolSessions :
          /\ n > Cardinality(call.open)
          /\ call' = [call EXCEPT !.open = 1..n]
    /\ UNCHANGED <<pc, as_of_date, exit_code, advisory_locks,
                   recommendation_snapshots, recommendation_items, tx, llm,
                   llm_result, hist>>

\* lock.rs:12-21: acquire a connection, pg_try_advisory_lock on it, and the
\* connection goes back to the pool when `conn` is dropped
TryAcquireAsOfDateLock ==
    /\ call.fn = "try_acquire_as_of_date_lock"
    /\ call.pc = "called"
    /\ \E c \in pool_acquire(call.open) :
          LET key == lock_key_for_date(call.as_of_date)
              granted == pg_try_advisory_lock(advisory_locks, key, c)
          IN  /\ advisory_locks' =
                    IF granted THEN advisory_locks \cup {[key |-> key, session |-> c]}
                    ELSE advisory_locks
              /\ call' = [call EXCEPT !.pc = "locked", !.open = @ \cup {c},
                                      !.lock_conn = c, !.acquired = granted]
    /\ UNCHANGED <<pc, as_of_date, exit_code, recommendation_snapshots,
                   recommendation_items, tx, llm, llm_result, hist>>

\* lock.rs:37-46: acquire a connection, pg_advisory_unlock on it (its result
\* is not read), Ok(())
ReleaseAsOfDateLock ==
    /\ call.fn = "try_acquire_as_of_date_lock"
    /\ call.pc = "locked"
    /\ \E c \in pool_acquire(call.open) :
          /\ advisory_locks' =
                pg_advisory_unlock(advisory_locks,
                                   lock_key_for_date(call.as_of_date), c)
          /\ call' = [call EXCEPT !.pc = "released", !.open = @ \cup {c},
                                  !.unlock_conn = c]
    /\ UNCHANGED <<pc, as_of_date, exit_code, recommendation_snapshots,
                   recommendation_items, tx, llm, llm_result, hist>>

\* a session of another process tries the lock of the same date, before the
\* helpers are called or after the release has returned
ForeignTryLock ==
    /\ call.fn = "try_acquire_as_of_date_lock"
    /\ call.pc \in {"called", "released"}
    /\ ~HoldsLock(ForeignSession, lock_key_for_date(call.as_of_date))
    /\ LET key == lock_key_for_date(call.as_of_date)
           granted == pg_try_advisory_lock(advisory_locks, key, ForeignSession)
       IN  /\ advisory_locks' =
                 IF granted
                 THEN advisory_locks \cup {[key |-> key, session |-> ForeignSession]}
                 ELSE advisory_locks
           /\ call' = IF call.pc = "released"
                      THEN [call EXCEPT !.pc = "foreign_tried",
                                        !.foreign_acquired = granted]
                      ELSE call
           /\ call.pc = "called" => granted
    /\ UNCHANGED <<pc, as_of_date, exit_code, recommendation_snapshots,
                   recommendation_items, tx, llm, llm_result, hist>>

LockHelpersNext ==
    \/ CallLockHelpers
    \/ PoolUse
    \/ TryAcquireAsOfDateLock
    \/ ReleaseAsOfDateLock
    \/ ForeignTryLock

LockHelpersSpec == Init /\ [][LockHelpersNext]_vars

\* ------------------------------------------------------ ingest fetch loops
\* HttpJsonDataProvider::fetch_daily_features (provider.rs:135-158) and the
\* request loop of KisClient::fetch_one_stock_daily_features
\* (kis.rs:291-365), one loop iteration per step.
DEFAULT_RETRIES == 3
KIS_MAX_ATTEMPTS == 3

\* what one attempt can come to
AttemptOutcomes ==
    {"ok", "ok_invalid", "send_error", "http_429", "http_500", "http_400",
     "read_error", "parse_error"}

\* the error of attempt k
FetchErr(k, kind) == [ok |-> FALSE, attempt |-> k, kind |-> kind]

FetchOk(k) == [ok |-> TRUE, attempt |-> k, kind |-> "ok"]

RECURSIVE shl(_, _)
shl(x, n) == IF n = 0 THEN x ELSE shl(2 * x, n - 1)

\* variant: the backoff grows by one second per attempt
backoff_secs_linear(attempt) == attempt

\* Duration::from_secs(1 << (attempt - 1))
backoff_secs(attempt) == shl(1, attempt - 1)

\* variant: one more attempt than configured
attempts_exhausted_late(attempt, max_attempts) == attempt > max_attempts

\* attempt >= self.retries, attempt >= max_attempts
attempts_exhausted(attempt, max_attempts) == attempt >= max_attempts

\* provider.rs:140-156: one pass of the loop for outcome o of fetch_once
\* (every Err of fetch_once is treated alike)
provider_iteration(c, o) ==
    LET attempt == c.attempt + 1
        tried == [c EXCEPT !.attempt = attempt, !.outcomes = Append(@, o)]
    IN  IF o = "ok"
        THEN [tried EXCEPT !.pc = "returned", !.result = FetchOk(attempt)]
        ELSE IF o = "ok_invalid"
        THEN [tried EXCEPT !.pc = "returned",
                           !.result = FetchErr(attempt, "validation")]
        ELSE IF attempts_exhausted(attempt, c.max_attempts)
        THEN [tried EXCEPT !.pc = "returned", !.result = FetchErr(attempt, o)]
        ELSE [tried EXCEPT !.sleeps = Append(@, backoff_secs(attempt))]

\* kis.rs:293-365: one pass of the loop, and for a parsed body the
\* search of the as-of bar that follows the loop (kis.rs:367-384)
kis_iteration(c, o) ==
    LET attempt == c.attempt + 1
        tried == [c EXCEPT !.attempt = attempt, !.outcomes = Append(@, o)]
        retry == [tried EXCEPT !.sleeps = Append(@, backoff_secs(attempt))]
        fail == [tried EXCEPT !.pc = "returned", !.result = FetchErr(attempt, o)]
    IN  IF o = "ok"
        THEN [tried EXCEPT !.pc = "returned", !.result = FetchOk(attempt)]
        ELSE IF o = "ok_invalid"
        THEN [tried EXCEPT !.pc = "returned",
                           !.result = FetchErr(attempt, "validation")]
        ELSE IF o = "read_error" THEN fail
        ELSE IF o \in {"send_error", "parse_error"}
        THEN IF attempts_exhausted(attempt, c.max_attempts) THEN fail ELSE retry
        ELSE IF o \in {"http_429", "http_500"}
                /\ ~attempts_exhausted(attempt, c.max_attempts)
        THEN retry
        ELSE fail

FetchLoops == {"fetch_daily_features", "fetch_one_stock_daily_features"}

\* DATA_PROVIDER_RETRIES (provider.rs:42-45) and max_attempts (kis.rs:291)
MaxAttemptsOf(fn) ==
    IF fn = "fetch_daily_features" THEN 0..(DEFAULT_RETRIES + 1)
    ELSE {KIS_MAX_ATTEMPTS}

CallFetch ==
    /\ call = NoCall
    /\ \E fn \in FetchLoops, d \in Dates :
       \E n \in MaxAttemptsOf(fn) :
          call' = [fn |-> fn, as_of_date |-> d, max_attempts |-> n,
                   pc |-> "loop", attempt |-> 0, outcomes |-> <<>>,
                   sleeps |-> <<>>, result |-> FetchErr(0, "none")]
    /\ UNCHANGED <<pc, as_of_date, exit_code, advisory_locks,
                   recommendation_snapshots, recommendation_items, tx, llm,
                   llm_result, hist>>

FetchDailyFeaturesIteration ==
    /\ call.fn = "fetch_daily_features"
    /\ call.pc = "loop"
    /\ \E o \in AttemptOutcomes \ {"read_error"} :
          call' = provider_iteration(call, o)
    /\ UNCHANGED <<pc, as_of_date, exit_code, advisory_locks,
                   recommendation_snapshots, recommendation_items, tx, llm,
                   llm_result, hist>>

FetchOneStockIteration ==
    /\ call.fn = "fetch_one_stock_daily_features"
    /\ call.pc = "loop"
    /\ \E o \in AttemptOutcomes : call' = kis_iteration(call, o)
    /\ UNCHANGED <<pc, as_of_date, exit_code, advisory_locks,
                   recommendation_snapshots, recommendation_items, tx, llm,
                   llm_result, hist>>

FetchNext == CallFetch \/ FetchDailyFeaturesIteration \/ FetchOneStockIteration

FetchSpec == Init /\ [][FetchNext]_vars

\* ------------------------------------------------------ KIS access token
\* KisClient::get_access_token_cached (kis.rs:174-207) with its in-process
\* cache and the kis_access_tokens table.  Time is counted in minutes.
STALE_MARGIN_MINUTES == 2
KST_OFFSET_MINUTES == 9 * 60
TOKEN_LIFETIME_MINUTES == 4

Times == 0..MaxTime

\* access_token_token_expired as the server writes it: "" or a KST local
\* time; anything else does not parse
NoExpiryText == [text |-> ""]
KstText(minute) == [text |-> "kst", minute |-> minute]

\* kis.rs:499-511: the KST local time converted to UTC
parse_kis_expiry_utc(s) ==
    IF s.text = "kst" THEN Some(s.minute - KST_OFFSET_MINUTES) ELSE None

\* a KisToken; issued_at is not a field of the program's token: it records
\* when the server issued it, for the properties only
KisToken(access_token, expired, expires_in, issued_at) ==
    [access_token |-> access_token, access_token_token_expired |-> expired,
     expires_in |-> expires_in, issued_at |-> issued_at]

\* what the token endpoint can answer at time `now`
TokenFormats == {"absolute", "relative", "unknown"}

fetch_access_token(n, format, now) ==
    KisToken(n,
             IF format = "absolute"
             THEN KstText(now + TOKEN_LIFETIME_MINUTES + KST_OFFSET_MINUTES)
             ELSE NoExpiryText,
             IF format = "unknown" THEN 0 ELSE TOKEN_LIFETIME_MINUTES,
             now)

\* variant: a token never counts as stale
is_expired_or_stale_never(token, fetched_at, now) == FALSE

\* kis.rs:437-454
is_expired_or_stale(token, fetched_at, now) ==
    LET exp == parse_kis_expiry_utc(token.access_token_token_expired)
    IN  IF exp # None THEN now + STALE_MARGIN_MINUTES >= exp[1]
        ELSE IF token.expires_in > 0
        THEN now + STALE_MARGIN_MINUTES >= fetched_at + token.expires_in
        ELSE TRUE

CachedToken(token, fetched_at) == [token |-> token, fetched_at |-> fetched_at]

\* kis.rs:456-476: the row of the table as a token, None when there is no row
\* or the query failed
load_token_from_db(db, query_ok) == IF query_ok THEN db ELSE None

NoTokenCall ==
    [now |-> 0, cache |-> None, db |-> None, loaded |-> None, ops |-> <<>>,
     ok |-> FALSE,
     token |-> KisToken(0, NoExpiryText, 0, 0)]

\* KisClient::from_settings, with or without with_db_pool
NewKisClient ==
    /\ call = NoCall
    /\ \E db_pool \in BOOLEAN :
          call' = [fn |-> "get_access_token_cached", db_pool |-> db_pool,
                   now |-> 0, token_cache |-> None, kis_access_tokens |-> None,
                   issued |-> 0, last |-> NoTokenCall]
    /\ UNCHANGED <<pc, as_of_date, exit_code, advisory_locks,
                   recommendation_snapshots, recommendation_items, tx, llm,
                   llm_result, hist>>

\* a minute passes
Tick ==
    /\ call.fn = "get_access_token_cached"
    /\ call.now < MaxTime
    /\ call' = [call EXCEPT !.now = @ + 1]
    /\ UNCHANGED <<pc, as_of_date, exit_code, advisory_locks,
                   recommendation_snapshots, recommendation_items, tx, llm,
                   llm_result, hist>>

\* kis.rs:174-207, under the token_cache mutex from the first line to the
\* return.  `last` keeps what the call saw and did.
GetAccessTokenCached ==
    /\ call.fn = "get_access_token_cached"
    /\ \E query_ok \in BOOLEAN, save_ok \in BOOLEAN, format \in TokenFormats,
          fetch_ok \in (IF call.issued < MaxIssued THEN BOOLEAN ELSE {FALSE}) :
          LET now == call.now
              cached == call.token_cache
              loaded == IF call.db_pool
                        THEN load_token_from_db(call.kis_access_tokens, query_ok)
                        ELSE None
              hit == cached # None
                     /\ ~is_expired_or_stale(cached[1].token, cached[1].fetched_at, now)
              seen == [now |-> now, cache |-> cached, db |-> call.kis_access_tokens,
                       loaded |-> IF hit THEN None ELSE loaded]
              token == fetch_access_token(call.issued + 1, format, now)
          IN  IF hit
              THEN call' = [call EXCEPT !.last =
                              seen @@ [ops |-> <<"cache">>, ok |-> TRUE,
                                       token |-> cached[1].token]]
              ELSE IF loaded # None /\ ~is_expired_or_stale(loaded[1], now, now)
              THEN call' = [call EXCEPT
                              !.token_cache = Some(CachedToken(loaded[1], now)),
                              !.last = seen @@ [ops |-> <<"cache", "db">>, ok |-> TRUE,
                                                token |-> loaded[1]]]
              ELSE IF ~fetch_ok
              THEN call' = [call EXCEPT !.last =
                              seen @@ [ops |-> IF call.db_pool
                                               THEN <<"cache", "db", "fetch">>
                                               ELSE <<"cache", "fetch">>,
                                       ok |-> FALSE,
                                       token |-> NoTokenCall.token]]
              ELSE call' = [call EXCEPT
                              !.issued = @ + 1,
                              !.token_cache = Some(CachedToken(token, now)),
                              !.kis_access_tokens =
                                  IF call.db_pool /\ save_ok THEN Some(token) ELSE @,
                              !.last =
                                  seen @@ [ops |-> IF ~call.db_pool
                                                   THEN <<"cache", "fetch">>
                                                   ELSE IF save_ok
                                                   THEN <<"cache", "db", "fetch", "save">>
                                                   ELSE <<"cache", "db", "fetch",
                                                          "save_failed">>,
                                           ok |-> TRUE, token |-> token]]
    /\ UNCHANGED <<pc, as_of_date, exit_code, advisory_locks,
                   recommendation_snapshots, recommendation_items, tx, llm,
                   llm_result, hist>>

\* the process ends and a new one starts: the in-process cache is empty
\* again, the table is what it was
RestartProcess ==
    /\ call.fn = "get_access_token_cached"
    /\ call.token_cache # None
    /\ call' = [call EXCEPT !.token_cache = None, !.last = NoTokenCall]
    /\ UNCHANGED <<pc, as_of_date, exit_code, advisory_locks,
                   recommendation_snapshots, recommendation_items, tx, llm,
                   llm_result, hist>>

TokenNext == NewKisClient \/ Tick \/ GetAccessTokenCached \/ RestartProcess

TokenSpec == Init /\ [][TokenNext]_vars

\* ================================================================== claims
SuccessRows(d) ==
    {i \in 1..Len(recommendation_snapshots) :
        recommendation_snapshots[i].status = "success"
        /\ recommendation_snapshots[i].as_of_date = d}

Started(r) == as_of_date[r] # 0

SameDate(r, s) == r # s /\ Started(r) /\ Started(s) /\ as_of_date[r] = as_of_date[s]

\* between a successful lock acquisition and the lock release
LockedSection ==
    {"idempotency_check", "build_universe", "generate", "generate_retry", "repair",
     "persist_success", "persist_items", "record_failure", "record_persist_error",
     "release"}

RowsWritten(r) == hist[r].success_rows + hist[r].error_rows

\* C1: in every reachable state there is at most one status=success snapshot
\* row per date, whatever runs overlapped, repeated or crashed.
C1_AtMostOneSuccessPerDate ==
    \A d \in Dates : Cardinality(SuccessRows(d)) <= 1

\* a second run for a date found the first run's success row
C1_Witness ==
    \E r, s \in Runs :
        /\ SameDate(r, s)
        /\ hist[r].success_rows = 1
        /\ hist[s].outcome = "already_satisfied"

\* C2: at most one run per date is between lock acquisition and release.
C2_OneRunPerDateInLockedSection ==
    \A r, s \in Runs :
        (r # s /\ pc[r] \in LockedSection /\ pc[s] \in LockedSection)
            => as_of_date[r] # as_of_date[s]

\* one run generates under the lock while a run for the same date was denied
C2_Witness ==
    \E r, s \in Runs :
        /\ SameDate(r, s)
        /\ pc[r] \in {"generate", "persist_items"}
        /\ hist[s].denied

\* C3: a run is denied only while another run for its date has the lock; the
\* denied run builds no universe, calls no model, writes no row, exits 0.
C3_DeniedRunIsNoOp ==
    \A r \in Runs :
        hist[r].denied =>
            /\ ~hist[r].acquired
            /\ \E s \in Runs :
                  SameDate(r, s) /\ (hist[s].acquired \/ hist[s].crashed_holding)
            /\ hist[r].universe_builds = 0
            /\ ~hist[r].model_called
            /\ hist[r].persist_failure_calls = 0
            /\ RowsWritten(r) = 0
            /\ pc[r] = "done"
            /\ exit_code[r] = 0

C3_Witness ==
    \E r, s \in Runs :
        /\ SameDate(r, s)
        /\ hist[r].denied /\ pc[r] = "done"
        /\ hist[s].acquired /\ hist[s].success_rows = 1

\* C4 (as claimed): every run that acquired the lock and left main() has
\* executed the lock release step.
C4_ReleaseOnEveryExit ==
    \A r \in Runs :
        (pc[r] = "done" /\ hist[r].acquired) => hist[r].release_calls >= 1

\* C5: the lock goes with the session of its holder: no lock is left behind by
\* a process that died or exited, and a lock attempt is refused only while a
\* live run for the same date is inside its locked section, so a dead holder
\* never blocks a later run.
C5_DeadHolderNeverBlocks ==
    /\ \A l \in advisory_locks : pc[l.session] \in LockedSection
    /\ \A s \in Runs :
          Started(s) =>
              \/ pg_try_advisory_lock(advisory_locks, lock_key_for_date(as_of_date[s]), s)
              \/ \E r \in Runs : SameDate(r, s) /\ pc[r] \in LockedSection

\* progress form of the same property, for FairSpec: every lock that is taken
\* is eventually gone again, whether its holder releases it, exits or is killed
NoDateLockedForever ==
    (advisory_locks # {}) ~> (advisory_locks = {})

\* a run holds the lock of a date whose earlier holder was killed
C5_Witness ==
    \E r, s \in Runs :
        /\ SameDate(r, s)
        /\ hist[r].crashed_holding
        /\ HoldsLock(s, lock_key_for_date(as_of_date[s]))

\* C6: a run whose idempotency check finds a success row builds no universe,
\* calls no model, writes nothing, releases the lock and exits 0.
C6_AlreadySatisfiedIsNoOp ==
    \A r \in Runs :
        hist[r].outcome = "already_satisfied" =>
            /\ hist[r].universe_builds = 0
            /\ ~hist[r].model_called
            /\ hist[r].persist_failure_calls = 0
            /\ RowsWritten(r) = 0
            /\ pc[r] \in {"release", "done"}
            /\ pc[r] = "done" => (hist[r].release_calls = 1 /\ exit_code[r] = 0)

C6_Witness ==
    \E r \in Runs :
        /\ hist[r].outcome = "already_satisfied"
        /\ pc[r] = "done"
        /\ Cardinality(SuccessRows(as_of_date[r])) = 1

\* C7: the lock is tried once per run; the idempotency query, the universe
\* build, model requests and row writes happen with the lock held, in that
\* order, and nothing happens after the release.
C7_WorkOnlyUnderLock ==
    \A r \in Runs :
        /\ hist[r].lock_attempts <= 1
        /\ ~hist[r].unlocked_work
        /\ hist[r].universe_builds > 0 => hist[r].acquired
        /\ hist[r].model_called => hist[r].universe_builds = 1
        /\ (hist[r].success_rows > 0 \/ hist[r].persist_failure_calls > 0)
              => hist[r].model_called
        /\ hist[r].release_calls > 0 => pc[r] = "done"
        /\ pc[r] \in LockedSection => hist[r].release_calls = 0

C7_Witness ==
    \E r \in Runs :
        /\ pc[r] = "done"
        /\ hist[r].acquired /\ hist[r].universe_builds = 1 /\ hist[r].model_called
        /\ hist[r].success_rows = 1 /\ hist[r].release_calls = 1

GeneratingErrors ==
    {"universe_invalid_options", "universe_query_error", "insufficient_candidates",
     "input_error", "generation_failed"}

\* C8 (as claimed): every error raised while Generating ends in a
\* persist_failure call that writes a failure row.
C8_GeneratingErrorRecorded ==
    \A r \in Runs :
        (pc[r] = "done" /\ hist[r].outcome \in GeneratingErrors)
            => (hist[r].persist_failure_calls >= 1 /\ hist[r].error_rows >= 1)

BusinessOutcomes ==
    {"lock_denied", "already_satisfied", "insufficient_candidates",
     "generation_failed", "persisted", "unique_conflict", "unique_conflict_items"}

\* C9 (as claimed): a run that ends with a business-level outcome exits 0.
C9_BusinessOutcomeExitsZero ==
    \A r \in Runs :
        (pc[r] = "done" /\ hist[r].outcome \in BusinessOutcomes) => exit_code[r] = 0

UniqueConflicts == {"unique_conflict", "unique_conflict_items"}

\* C10: after persist_success fails with a unique violation the run writes no
\* failure row; after any other persist_success error it calls persist_failure
\* exactly once, whatever that call returns; either way it releases and exits 0.
C10_PersistSuccessErrorHandling ==
    \A r \in Runs :
        /\ hist[r].outcome \in UniqueConflicts =>
              /\ hist[r].persist_failure_calls = 0
              /\ hist[r].error_rows = 0
              /\ pc[r] \in {"release", "done"}
        /\ hist[r].outcome = "persist_error" =>
              /\ pc[r] \in {"record_persist_error", "release", "done"}
              /\ hist[r].persist_failure_calls =
                    (IF pc[r] = "record_persist_error" THEN 0 ELSE 1)
              /\ hist[r].error_rows <= 1
        /\ (hist[r].outcome \in UniqueConflicts \cup {"persist_error"} /\ pc[r] = "done")
              => (hist[r].release_calls = 1 /\ exit_code[r] = 0)

\* one run ended on a unique violation, another on a persist error whose
\* persist_failure attempt failed too
C10_Witness ==
    /\ \E r \in Runs : hist[r].outcome \in UniqueConflicts /\ pc[r] = "done"
    /\ \E s \in Runs :
          /\ hist[s].outcome = "persist_error" /\ pc[s] = "done"
          /\ hist[s].error_rows = 0

\* C11 (as claimed): a run that called persist_failure, whatever that call
\* returned, has released the lock and exited with status 0.
C11_RecordingFaultNeverFatal ==
    \A r \in Runs :
        (pc[r] = "done" /\ hist[r].persist_failure_calls >= 1)
            => (exit_code[r] = 0 /\ hist[r].release_calls = 1)

PersistSuccessPcs == {"persist_success", "persist_items"}

\* committed rows: every success row has exactly ITEM_COUNT item rows with
\* ranks 1..ITEM_COUNT, no other row has items, no item is without its row
C12_CommittedSnapshotsComplete ==
    /\ \A id \in 1..Len(recommendation_snapshots) :
          IF recommendation_snapshots[id].status = "success"
          THEN /\ Cardinality(ItemsOf(recommendation_items, id)) = ITEM_COUNT
               /\ {it.rank : it \in ItemsOf(recommendation_items, id)} = 1..ITEM_COUNT
          ELSE ItemsOf(recommendation_items, id) = {}
    /\ \A it \in recommendation_items :
          /\ it.snapshot_id \in 1..Len(recommendation_snapshots)
          /\ recommendation_snapshots[it.snapshot_id].status = "success"

\* one step of a persist_success call: either it commits, and the store gains
\* the snapshot row and exactly the items of that snapshot, or the store is
\* what it was; a snapshot without ITEM_COUNT items is refused with no
\* transaction opened
C12_CallStep ==
    \A r \in Runs :
        (pc[r] \in PersistSuccessPcs /\ pc'[r] # pc[r]) =>
            /\ IF hist'[r].outcome = "persisted"
               THEN /\ recommendation_snapshots' =
                          Append(recommendation_snapshots, tx[r].row)
                    /\ recommendation_items' = recommendation_items \cup
                          {[snapshot_id |-> Len(recommendation_snapshots) + 1,
                            rank |-> tx[r].items[i].rank,
                            ticker |-> tx[r].items[i].ticker] : i \in 1..ITEM_COUNT}
                    /\ Len(tx[r].items) = ITEM_COUNT
               ELSE /\ recommendation_snapshots' = recommendation_snapshots
                    /\ recommendation_items' = recommendation_items
            /\ (pc[r] = "persist_success"
                /\ Len(llm_result[r].snapshot.items) # ITEM_COUNT)
                  => (~tx'[r].open /\ hist'[r].outcome # "persisted")

\* C12: persist_success is all-or-nothing: the committed store never holds a
\* success row without exactly its 20 items or an item without its row; a
\* call that fails at the snapshot insert, at an item insert or at commit, or
\* whose process dies, leaves the store as it was; a snapshot without exactly
\* 20 items is refused before anything is written.
C12_PersistSuccessAllOrNothing ==
    []C12_CommittedSnapshotsComplete /\ [][C12_CallStep]_vars

\* one call committed its snapshot and another call's transaction failed
C12_Witness ==
    \E r, s \in Runs :
        /\ hist[r].outcome = "persisted"
        /\ hist[s].outcome \in {"persist_error", "unique_conflict_items"}
        /\ pc[s] = "done"
        /\ \E id \in 1..Len(recommendation_snapshots) :
              Cardinality(ItemsOf(recommendation_items, id)) = ITEM_COUNT

C13_OneUncommittedPerDate ==
    /\ \A d \in Dates : Cardinality(SuccessRows(d)) <= 1
    /\ \A r, s \in Runs :
          (r # s /\ tx[r].open /\ tx[s].open)
              => tx[r].row.as_of_date # tx[s].row.as_of_date

\* a persist_success call with a complete snapshot for a date that already has
\* a committed success row ends with the unique violation of the date index
\* (or with a storage fault) and leaves all rows as they were; committed rows
\* and their items are never changed by any later step
C13_SecondCallStep ==
    /\ \A r \in Runs :
          (/\ pc[r] = "persist_success"
           /\ pc'[r] \notin {"persist_success", "crashed"}
           /\ Len(llm_result[r].snapshot.items) = ITEM_COUNT
           /\ SuccessRows(llm_result[r].snapshot.as_of_date) # {})
              => /\ hist'[r].outcome \in {"unique_conflict", "persist_error"}
                 /\ recommendation_snapshots' = recommendation_snapshots
                 /\ recommendation_items' = recommendation_items
    /\ Len(recommendation_snapshots') >= Len(recommendation_snapshots)
    /\ \A id \in 1..Len(recommendation_snapshots) :
          /\ recommendation_snapshots'[id] = recommendation_snapshots[id]
          /\ ItemsOf(recommendation_items', id) = ItemsOf(recommendation_items, id)

\* C13: of two persist_success calls for one date, sequential or concurrent,
\* at most one commits and the later one fails with the unique violation; the
\* stored success row and its items are those of the call that committed
\* first and are not changed by the failed call.
C13_SecondPersistSuccessFails ==
    []C13_OneUncommittedPerDate /\ [][C13_SecondCallStep]_vars

\* two calls for one date: one committed, the other got the unique violation
\* of the date index
C13_Witness ==
    \E r, s \in Runs :
        /\ SameDate(r, s)
        /\ hist[r].outcome = "persisted"
        /\ hist[s].outcome = "unique_conflict"
        /\ Cardinality(SuccessRows(as_of_date[r])) = 1

\* a persist_failure call leaves the items alone and either fails on a storage
\* fault, changing nothing, or appends exactly one status=error row for its
\* date after the rows that were there
C14_PersistFailureStep ==
    \A r \in Runs :
        hist'[r].persist_failure_calls = hist[r].persist_failure_calls + 1 =>
            /\ recommendation_items' = recommendation_items
            /\ IF hist'[r].error_rows = hist[r].error_rows + 1
               THEN /\ Len(recommendation_snapshots') = Len(recommendation_snapshots) + 1
                    /\ SubSeq(recommendation_snapshots', 1, Len(recommendation_snapshots))
                          = recommendation_snapshots
                    /\ recommendation_snapshots'[Len(recommendation_snapshots')].status
                          = "error"
                    /\ recommendation_snapshots'[Len(recommendation_snapshots')].as_of_date
                          = as_of_date[r]
               ELSE recommendation_snapshots' = recommendation_snapshots

C14_ErrorRowsHaveNoItems ==
    \A id \in 1..Len(recommendation_snapshots) :
        recommendation_snapshots[id].status = "error"
            => ItemsOf(recommendation_items, id) = {}

\* C14: persist_failure is permitted whatever rows the date already has: each
\* call that the store serves adds exactly one status=error row without items
\* and leaves every existing snapshot and item row unchanged.
C14_PersistFailureAlwaysAppends ==
    []C14_ErrorRowsHaveNoItems /\ [][C14_PersistFailureStep]_vars

\* a failure was recorded for a date that already had its success row
C14_Witness ==
    \E i, j \in 1..Len(recommendation_snapshots) :
        /\ i < j
        /\ recommendation_snapshots[i].status = "success"
        /\ recommendation_snapshots[j].status = "error"
        /\ recommendation_snapshots[i].as_of_date = recommendation_snapshots[j].as_of_date
        /\ Cardinality(ItemsOf(recommendation_items, i)) = ITEM_COUNT

\* what a request for date d (0: the latest snapshot) is answered with
C15_Response(d) ==
    LET resp == get_snapshot(recommendation_snapshots, recommendation_items, d)
        served == IF d = 0 THEN UNION {SuccessRows(e) : e \in Dates} ELSE SuccessRows(d)
    IN  IF served = {} THEN resp.status = "NOT_FOUND"
        ELSE /\ resp.status = "OK"
             /\ resp.snapshot_id \in served
             /\ recommendation_snapshots[resp.snapshot_id].status = "success"
             /\ d # 0 => resp.as_of_date = d
             /\ Len(resp.items) = ITEM_COUNT
             /\ \A k \in 1..Len(resp.items) : resp.items[k].rank = k

\* the snapshot row and the items are read by two queries: between them the
\* row that was read and its items do not change
C15_CommittedRowsStable ==
    /\ Len(recommendation_snapshots') >= Len(recommendation_snapshots)
    /\ \A id \in 1..Len(recommendation_snapshots) :
          /\ recommendation_snapshots'[id] = recommendation_snapshots[id]
          /\ ItemsOf(recommendation_items', id) = ItemsOf(recommendation_items, id)

\* C15: the read service answers a request with a status=success snapshot that
\* has its complete item set (20 items, ranks 1..20 in order), never with an
\* error row or a partial snapshot, and with NOT_FOUND when the date (or the
\* store) has no committed success row.
C15_ReadServiceSeesCompleteOrAbsent ==
    [](\A d \in Dates \cup {0} : C15_Response(d)) /\ [][C15_CommittedRowsStable]_vars

\* a date with an error row and a success row is served its success snapshot,
\* and another date with only an error row is answered NOT_FOUND
C15_Witness ==
    \E d, e \in Dates :
        /\ get_snapshot(recommendation_snapshots, recommendation_items, d).status = "OK"
        /\ \E i \in 1..Len(recommendation_snapshots) :
              /\ recommendation_snapshots[i].status = "error"
              /\ recommendation_snapshots[i].as_of_date = d
        /\ get_snapshot(recommendation_snapshots, recommendation_items, e).status
              = "NOT_FOUND"

\* a snapshot that satisfies the item-count, rank and date rules for date d
IsCompleteSnapshot(snapshot, d) ==
    /\ snapshot.as_of_date = d
    /\ Len(snapshot.items) = ITEM_COUNT
    /\ {snapshot.items[i].rank : i \in 1..Len(snapshot.items)} = 1..ITEM_COUNT

ClientPcs == {"generate", "generate_retry", "repair"}

\* C16: within a run the universe is built before any model request, a
\* snapshot reaches persist_success only as the validated result of that run's
\* generation, and a run whose generation or validation failed calls
\* persist_failure: its failure row is written unless that INSERT itself fails.
C16_StrictOrderWithinRun ==
    \A r \in Runs :
        /\ (pc[r] \in ClientPcs \/ hist[r].model_called) => hist[r].universe_builds = 1
        /\ pc[r] = "persist_success" =>
              /\ hist[r].model_called /\ hist[r].outcome = "validated"
              /\ llm_result[r].ok
              /\ IsCompleteSnapshot(llm_result[r].snapshot, as_of_date[r])
        /\ tx[r].open =>
              /\ tx[r].row.as_of_date = as_of_date[r]
              /\ IsCompleteSnapshot([as_of_date |-> tx[r].row.as_of_date,
                                     items |-> tx[r].items], as_of_date[r])
        /\ hist[r].success_rows > 0 => hist[r].model_called
        /\ hist[r].outcome = "generation_failed" =>
              /\ pc[r] \in {"record_failure", "release", "done"}
              /\ hist[r].success_rows = 0
              /\ pc[r] = "release" =>
                    (hist[r].persist_failure_calls = 1 /\ hist[r].error_rows = 1)
              /\ pc[r] = "done" =>
                    /\ hist[r].persist_failure_calls = 1
                    /\ hist[r].error_rows = 1 \/ exit_code[r] = 1

\* one run went through all steps to a persisted snapshot, another, whose
\* output failed validation, has written its failure row
C16_Witness ==
    \E r, s \in Runs :
        /\ pc[r] = "done" /\ hist[r].outcome = "persisted"
        /\ pc[s] \in {"release", "done"} /\ hist[s].outcome = "generation_failed"
        /\ hist[s].error_rows = 1

\* 2 x max_tokens, exactly (the high half may exceed 16 bits)
Times2(x) == <<(2 * x[1]) + ((2 * x[2]) \div U32_HALF), (2 * x[2]) % U32_HALF>>

\* C17 (as claimed): the retry is sent with max(2 x configured, 4096).
C17_RetryBoundAsClaimed ==
    \A r \in Runs :
        pc[r] = "generate_retry" =>
            llm[r].request_max_tokens =
                u32_max(Times2(llm[r].max_tokens), U32(RETRY_MIN_MAX_TOKENS))

C17_RetryPrepared ==
    \A r \in Runs :
        pc[r] = "generate_retry" =>
            /\ llm[r].calls = 1
            /\ llm[r].stop_reason = "max_tokens"
            /\ llm[r].request_max_tokens =
                  u32_max(IF Times2(llm[r].max_tokens)[1] >= U32_HALF THEN U32_MAX
                          ELSE Times2(llm[r].max_tokens),
                          U32(RETRY_MIN_MAX_TOKENS))

C17_RetryOnlyAfterInitial ==
    \A r \in Runs :
        /\ (pc'[r] = "generate_retry" /\ pc[r] # "generate_retry") => pc[r] = "generate"
        /\ (pc[r] = "generate_retry" /\ pc'[r] # pc[r]) =>
              pc'[r] \in {"persist_success", "record_failure", "repair", "crashed"}

\* C17 (amended): a first response with stop_reason = max_tokens is followed by
\* exactly one more request with the same prompt and output bound
\* max(min(2 x configured, 2^32 - 1), 4096); the retry is entered only from the
\* initial request, and neither the retry response nor a repair response
\* leads to another truncation retry.
C17_SingleTruncationRetry ==
    []C17_RetryPrepared /\ [][C17_RetryOnlyAfterInitial]_vars

\* a retry is about to be sent with the saturated bound while another run is
\* repairing the unparseable answer to its retry
C17_Witness ==
    \E r, s \in Runs :
        /\ pc[r] = "generate_retry" /\ llm[r].request_max_tokens = U32_MAX
        /\ pc[s] = "repair" /\ llm[s].last_raw = "retry" /\ llm[s].calls = 2

\* C18 (as claimed): an output of the first answer that fails validation is
\* always followed by repair requests, so the client never returns the
\* validation error of the first answer itself.
C18_InvalidFirstOutputIsRepaired ==
    \A r \in Runs :
        pc[r] = "record_failure" => llm_result[r].stage # "validation"

C19_ResponseOfRepair(k) == IF k = 1 THEN "repair1" ELSE "repair2"

C19_RepairReturns ==
    \A r \in Runs :
        /\ \A k \in 1..REPAIR_ATTEMPTS :
              (pc[r] = "repair" /\ llm[r].attempt = k /\ pc'[r] = "persist_success") =>
                  /\ llm_result'[r].ok
                  /\ llm_result'[r].raw = C19_ResponseOfRepair(k)
                  /\ llm_result'[r].snapshot.generated_at = C19_ResponseOfRepair(k)
                  /\ IsCompleteSnapshot(llm_result'[r].snapshot, as_of_date[r])
                  /\ llm'[r] = NoLlm
        /\ pc[r] \notin ClientPcs \cup {"build_universe"} => pc'[r] \notin ClientPcs

\* C19: when repair attempt k returns a valid snapshot, the client returns
\* that snapshot together with the raw response of repair k, and the run
\* sends no further model request.
C19_RepairResultIsReturned ==
    [][C19_RepairReturns]_vars

\* one run got its snapshot from the first repair, another from the second
C19_Witness ==
    \E r, s \in Runs :
        /\ pc[r] = "persist_success" /\ llm_result[r].raw = "repair1"
        /\ llm_result[r].snapshot.generated_at = "repair1"
        /\ pc[s] = "persist_success" /\ llm_result[s].raw = "repair2"

C20_DiagnosticFailure ==
    \A r \in Runs :
        llm_result[r].stage = "parse_after_repair" =>
            /\ pc[r] = "record_failure"
            /\ llm_result[r].diag /\ ~llm_result[r].ok
            /\ llm_result[r].raw = "repair2"

C20_FailureRecorded ==
    \A r \in Runs :
        /\ (pc[r] = "repair" /\ llm_result'[r].stage = "parse_after_repair") =>
              (llm[r].attempt = REPAIR_ATTEMPTS /\ llm[r].calls >= REPAIR_ATTEMPTS)
        /\ (/\ pc[r] = "record_failure"
            /\ llm_result[r].stage = "parse_after_repair"
            /\ hist'[r].error_rows = hist[r].error_rows + 1) =>
              /\ Len(recommendation_snapshots') = Len(recommendation_snapshots) + 1
              /\ recommendation_snapshots'[Len(recommendation_snapshots')] =
                    [as_of_date |-> as_of_date[r], status |-> "error", raw |-> "json"]

\* C20: when the initial output and both repair outputs fail, the client
\* returns the diagnostic failure of stage "parse_after_repair" carrying the
\* response of the second repair, and the failure row the run writes has that
\* raw response attached (not NULL).
C20_RepairsExhausted ==
    []C20_DiagnosticFailure /\ [][C20_FailureRecorded]_vars

\* the client gave up after the second repair and the run is about to record it
C20_Witness ==
    \E r \in Runs :
        /\ pc[r] = "record_failure"
        /\ llm_result[r].stage = "parse_after_repair"
        /\ llm_result[r].raw = "repair2"
        /\ hist[r].model_called

\* failures the client returns after a model response body had been received
C21_BodyReceivedStages == {"http", "tool_decode", "validation", "parse_after_repair"}

\* C21 (as claimed): every failure the generation client returns is a
\* diagnostic failure (provider, stage), and it carries the raw model output
\* whenever a response body had been received in the call.
C21_EveryFailureIsDiagnostic ==
    \A r \in Runs :
        pc[r] = "record_failure" =>
            /\ llm_result[r].diag
            /\ llm_result[r].stage \in C21_BodyReceivedStages =>
                  llm_result[r].raw # "null"

C22_EmitSnapshotBlocks(content) ==
    {i \in 1..Len(content) :
        content[i].type = "tool_use" /\ content[i].name = "emit_snapshot"}

C22_TextOf(content) ==
    LET texts == {i \in 1..Len(content) : content[i].type = "text"}
        Nth[k \in 0..Len(content)] ==
            IF k = 0 THEN 0
            ELSE CHOOSE i \in texts :
                    Cardinality({j \in texts : j <= i}) = k
    IN  [k \in 1..Cardinality(texts) |-> content[Nth[k]].body]

\* C22 (as claimed): for the initial response, the truncation retry and each
\* repair response alike, the candidate output is the input of the
\* emit_snapshot tool_use block when the response has one, and the text of its
\* text blocks only when it has none; other blocks contribute nothing.
C22_StructuredBlockPreferred ==
    (call.fn = "handle_response" /\ call.pc = "extracted"
     /\ call.candidate.channel # "error") =>
        LET tools == C22_EmitSnapshotBlocks(call.content)
        IN  IF tools # {}
            THEN /\ call.candidate.channel = "tool_use"
                 /\ call.candidate.value =
                       <<call.content[CHOOSE i \in tools : \A j \in tools : i <= j].body>>
            ELSE /\ call.candidate.channel = "text"
                 /\ call.candidate.value = C22_TextOf(call.content)


C23_Ranks(items) == {items[i].rank : i \in 1..Len(items)}

\* C23: every snapshot the validator accepts has exactly 20 items whose ranks
\* are 1..20, each once, and an output with another item count, a rank outside
\* 1..20, a repeated rank or a missing rank is rejected.
C23_RanksExactlyOneToTwenty ==
    (call.fn = "validate" /\ call.pc # "called") =>
        LET given == call.input.items
            accepted == call.result.snapshot.items
        IN  /\ Len(given) # ITEM_COUNT => ~call.result.ok
            /\ (\E i \in 1..Len(given) : given[i].rank \notin 1..ITEM_COUNT)
                  => ~call.result.ok
            /\ (\E i, j \in 1..Len(given) : i # j /\ given[i].rank = given[j].rank)
                  => ~call.result.ok
            /\ (\E rank \in 1..ITEM_COUNT : rank \notin C23_Ranks(given))
                  => ~call.result.ok
            /\ call.result.ok =>
                  /\ Len(accepted) = ITEM_COUNT
                  /\ C23_Ranks(accepted) = 1..ITEM_COUNT
                  /\ \A i, j \in 1..ITEM_COUNT :
                        i # j => accepted[i].rank # accepted[j].rank
                  /\ \A i \in 1..ITEM_COUNT : accepted[i].rank = given[i].rank

\* an output whose 20 ranks come in descending order was accepted
C23_Witness ==
    /\ call.fn = "validate" /\ call.pc = "validated"
    /\ call.result.ok
    /\ call.result.snapshot.items[1].rank = ITEM_COUNT
    /\ C23_Ranks(call.result.snapshot.items) = 1..ITEM_COUNT

\* C24: an output whose date is not the expected date is rejected wherever it
\* is validated, a repair response included, even when everything else is
\* valid; the date of an accepted snapshot is the expected date.
C24_DateMustMatch ==
    (call.fn = "validate" /\ call.pc # "called") =>
        /\ call.input.as_of_date # call.expected => ~call.result.ok
        /\ call.result.ok => call.result.snapshot.as_of_date = call.expected

\* a repair output for another date, valid for that date, was rejected
C24_Witness ==
    /\ call.fn = "validate" /\ call.pc = "validated"
    /\ call.via = "repair"
    /\ call.input.as_of_date # call.expected
    /\ validate_and_into_snapshot(call.input, call.input.as_of_date).ok
    /\ ~call.result.ok

\* the output with every confidence taken out
C25_WithoutConfidence(out) ==
    [out EXCEPT !.items = [i \in 1..Len(out.items) |->
                              [out.items[i] EXCEPT !.confidence = None]]]

\* C25: on an output that is otherwise valid, a present confidence is
\* accepted exactly when it lies in [0, 1], both ends included, and an absent
\* one is accepted; the accepted item has the confidence of the output, absent
\* when it was absent.
C25_ConfidenceInClosedUnitInterval ==
    (/\ call.fn = "validate" /\ call.pc # "called"
     /\ validate_and_into_snapshot(C25_WithoutConfidence(call.input),
                                   call.expected).ok) =>
        /\ call.result.ok <=>
              \A i \in 1..Len(call.input.items) :
                  \/ call.input.items[i].confidence = None
                  \/ /\ call.input.items[i].confidence[1] >= 0
                     /\ call.input.items[i].confidence[1] <= CONFIDENCE_ONE
        /\ call.result.ok =>
              \A i \in 1..Len(call.input.items) :
                  call.result.snapshot.items[i].confidence
                      = call.input.items[i].confidence

\* an output with a confidence of exactly 1.0 was accepted
C25_Witness ==
    /\ call.fn = "validate" /\ call.pc = "validated"
    /\ call.result.ok
    /\ \E i \in 1..ITEM_COUNT :
          call.result.snapshot.items[i].confidence = Some(CONFIDENCE_ONE)
    /\ \E i \in 1..ITEM_COUNT :
          call.result.snapshot.items[i].confidence = Some(CONFIDENCE_ONE \div 2)

C27_ValidOptions(opts) ==
    /\ opts.size >= MIN_CANDIDATES /\ opts.size <= MAX_CANDIDATES
    /\ opts.oversample >= 1

\* the prefetched records whose name is not that of a fund or note
C27_Survivors(rows) == {i \in 1..Len(rows) : ~EtfNameTable[rows[i].name]}

\* C27: with size in [200,500] and oversample >= 1, and the query served, the
\* builder returns exactly `size` candidates when at least `size` prefetched
\* records survive the name filter and fails with the insufficient-candidates
\* error otherwise; other options are rejected before any query; no result
\* has another length than `size`.
C27_ExactlySizeOrInsufficient ==
    (call.fn = "build_candidate_universe_db") =>
        /\ call.queries = 1 => C27_ValidOptions(call.opts)
        /\ call.result.ok =>
              /\ call.pc = "returned" /\ C27_ValidOptions(call.opts)
              /\ Len(call.result.candidates) = call.opts.size
        /\ call.pc = "returned" =>
              LET survivors == Cardinality(C27_Survivors(call.rows))
              IN  /\ ~C27_ValidOptions(call.opts) =>
                        (call.result = UniverseErr(InvalidOptions) /\ call.queries = 0)
                  /\ (C27_ValidOptions(call.opts) /\ ~call.query_fails) =>
                        IF survivors >= call.opts.size
                        THEN /\ call.result.ok
                             /\ Len(call.result.candidates) = call.opts.size
                        ELSE call.result = UniverseErr(InsufficientCandidates)
                  /\ build_candidate_universe_db(
                        UniverseCase(FALSE, call.opts.size, call.opts.oversample,
                                     survivors, call.query_fails))
                        = (IF call.result.ok THEN Len(call.result.candidates)
                           ELSE call.result.err)

\* 500 candidates were returned out of more survivors
C27_Witness ==
    /\ call.fn = "build_candidate_universe_db" /\ call.pc = "returned"
    /\ call.result.ok
    /\ Len(call.result.candidates) = MAX_CANDIDATES
    /\ Cardinality(C27_Survivors(call.rows)) > MAX_CANDIDATES

C28_TradingValueKey(row) ==
    IF row.trading_value = None THEN 0 - 1 ELSE row.trading_value[1]

C28_TradingValueBefore(a, b) ==
    \/ C28_TradingValueKey(a) > C28_TradingValueKey(b)
    \/ (C28_TradingValueKey(a) = C28_TradingValueKey(b) /\ a.ticker < b.ticker)

\* tradingValue / 1e9 + ret_1d x 10 in hundredths, a missing value counting 0
C28_Score(row) ==
    (IF row.trading_value = None THEN 0 ELSE row.trading_value[1])
    + (IF row.ret_1d = None THEN 0 ELSE row.ret_1d[1])

C28_ScoreBefore(a, b) ==
    \/ a.score > b.score
    \/ (a.score = b.score /\ a.candidate.ticker < b.candidate.ticker)

\* the rows of the query are the first size x oversample rows of the date
\* (with at least the minimum trading value, when one is configured) by
\* trading value descending, missing values last, then ticker ascending
C28_Prefetched ==
    LET table == Table(call.table)
        rows == call.rows
        matching ==
            {table[i] : i \in {j \in 1..Len(table) :
                /\ table[j].as_of_date = call.as_of_date
                /\ call.opts.min_trading_value # None =>
                      C28_TradingValueKey(table[j]) >= call.opts.min_trading_value[1]}}
        fetched == {rows[i] : i \in 1..Len(rows)}
        wanted == call.opts.size * call.opts.oversample
    IN  /\ fetched \subseteq matching
        /\ Cardinality(fetched) = Len(rows)
        /\ Len(rows) = (IF Cardinality(matching) < wanted
                        THEN Cardinality(matching) ELSE wanted)
        /\ \A i \in 1..(Len(rows) - 1) : C28_TradingValueBefore(rows[i], rows[i + 1])
        /\ \A row \in matching \ fetched :
              C28_TradingValueBefore(rows[Len(rows)], row)

\* the candidates are the first `size` of the prefetched rows without the
\* fund-named ones, by score descending, then ticker ascending
C28_Selected ==
    LET rows == call.rows
        scored == call.result.scored
        candidates == call.result.candidates
        eligible == {rows[i] : i \in C27_Survivors(rows)}
    IN  /\ {scored[i] : i \in 1..Len(scored)} =
              {[score |-> C28_Score(row),
                candidate |-> [ticker |-> row.ticker, name |-> row.name,
                               features |-> [ret_1d |-> row.ret_1d]]] :
                 row \in eligible}
        /\ Len(scored) = Cardinality(eligible)
        /\ \A i \in 1..(Len(scored) - 1) : C28_ScoreBefore(scored[i], scored[i + 1])
        /\ candidates = [i \in 1..call.opts.size |-> scored[i].candidate]
        /\ \A i \in 1..Len(candidates) :
              ~is_etf_or_etn_name(NamePool[candidates[i].name])

\* C28: the candidates returned are exactly the first `size` elements of the
\* prefetched records (the top size x oversample by trading value descending,
\* ticker ascending), minus the records with a fund/ETF name, ordered by
\* score = tradingValue/1e9 + ret_1d x 10 descending, ticker ascending, a
\* missing trading value or ret_1d counting as 0.
C28_TopBySizeOfScoredPrefetch ==
    (call.fn = "build_candidate_universe_db" /\ call.queries = 1
     /\ ~call.query_fails) =>
        /\ C28_Prefetched
        /\ call.result.ok => C28_Selected

\* a universe was selected from rows with missing values and fund names, and
\* its first candidate is not the row with the highest trading value
C28_Witness ==
    /\ call.fn = "build_candidate_universe_db" /\ call.pc = "returned"
    /\ call.result.ok
    /\ call.table.kind = "nulls"
    /\ \E i \in 1..Len(call.rows) : call.rows[i].trading_value = None
    /\ \E i \in 1..Len(call.rows) : EtfNameTable[call.rows[i].name]
    /\ call.result.candidates[1].ticker # call.rows[1].ticker
    /\ Len(call.rows) > Len(call.result.candidates)


\* scenario E: a database universe with valid options, a served query and
\* fewer eligible rows than `size`
C29_TooFewEligible(u) ==
    /\ ~u.use_stub /\ ~u.query_fails
    /\ u.size >= MIN_CANDIDATES /\ u.size <= MAX_CANDIDATES /\ u.oversample >= 1
    /\ u.eligible < u.size

\* C29: a run whose universe has fewer than `size` eligible candidates fails
\* with the insufficient-candidates error, and that run sends no model request,
\* neither before nor after.
C29_InsufficientCandidatesNoModelCall ==
    /\ \A u \in UniverseCases, api_key_set \in BOOLEAN :
          C29_TooFewEligible(u) =>
              UniverseOutcome(u, api_key_set) = "insufficient_candidates"
    /\ \A r \in Runs :
          hist[r].outcome = "insufficient_candidates" =>
              /\ pc[r] = "done"
              /\ exit_code[r] = 1
              /\ hist[r].universe_builds = 1
              /\ ~hist[r].model_called
              /\ llm[r] = NoLlm /\ llm_result[r] = NoResult

\* a run ended on 150 eligible candidates for size 200
C29_Witness ==
    /\ \E u \in UniverseCases :
          C29_TooFewEligible(u) /\ u.eligible = 150 /\ u.size = DEFAULT_UNIVERSE_SIZE
    /\ \E r \in Runs :
          /\ hist[r].outcome = "insufficient_candidates"
          /\ pc[r] = "done"
          /\ hist[r].acquired

\* failures of the transport: no response, or a response with an error status
C30_TransportFailures == {"request", "http"}

\* C30 (as claimed): a request that fails in the transport is tried again, so
\* the client never returns such a failure right after the first attempt of
\* its first request.
C30_TransportFailureIsRetried ==
    [][\A r \in Runs :
          pc[r] = "generate" =>
              ~(/\ pc'[r] = "record_failure"
                /\ llm_result'[r].stage \in C30_TransportFailures)]_vars

\* C31: GenerateInput::try_new succeeds if and only if the candidate count n
\* satisfies 200 <= n <= 500, both bounds accepted, and no model request is
\* built from fewer than 200 or more than 500 candidates.
C31_TryNewAcceptsExactly200To500 ==
    /\ (call.fn = "try_new" /\ call.pc # "called") =>
          (call.ok <=> (call.candidates >= 200 /\ call.candidates <= 500))
    /\ (call.fn = "try_new" /\ call.requests > 0) =>
          (call.request_candidates >= 200 /\ call.request_candidates <= 500)

C31_Witness ==
    /\ call.fn = "try_new"
    /\ call.pc = "requested"
    /\ call.request_candidates = 500

C32_NowKst == (call.now_utc.day * 1440) + call.now_utc.minute + 540

C32_BaseDate ==
    IF C32_NowKst % 1440 >= 16 * 60 THEN C32_NowKst \div 1440
    ELSE (C32_NowKst \div 1440) - 1

C32_Holidays ==
    {739610, 739617} \cup {p.day : p \in {q \in call.env : q.text = "date"}}

C32_BusinessDay(d) == ((d - 1) % 7) \notin {5, 6} /\ d \notin C32_Holidays

C32_NoArgument == call.fn = "resolve_as_of_date" /\ call.as_of_date_arg = None

C32_Returned == call.fn = "resolve_as_of_date" /\ call.pc = "returned"

C32_LatestBusinessDay ==
    (C32_NoArgument /\ C32_Returned) =>
        /\ call.ok
        /\ call.date <= C32_BaseDate
        /\ C32_BusinessDay(call.date)
        /\ \A d \in (call.date + 1)..C32_BaseDate : ~C32_BusinessDay(d)

C33_BenignNoOpHasSuccessRow ==
    \A r \in Runs :
        hist[r].outcome \in {"unique_conflict", "unique_conflict_items"} =>
            \E i \in 1..Len(recommendation_snapshots) :
                /\ recommendation_snapshots[i].as_of_date = as_of_date[r]
                /\ recommendation_snapshots[i].status = "success"

C34_HoldsDateLock(r) == HoldsLock(r, lock_key_for_date(as_of_date[r]))

\* C34: every success row a run writes is for the date whose lock that run
\* holds: the snapshot handed to persist_success and the row inserted in its
\* transaction carry the run's resolved as_of_date while the run holds the
\* lock of that date, whichever response the snapshot came from, and the
\* success row a run has committed is a row of its date.
C34_SuccessRowIsForLockedDate ==
    \A r \in Runs :
        /\ pc[r] = "persist_success" =>
              /\ llm_result[r].ok
              /\ llm_result[r].snapshot.as_of_date = as_of_date[r]
              /\ C34_HoldsDateLock(r)
        /\ tx[r].open =>
              /\ pc[r] = "persist_items"
              /\ tx[r].row.status = "success"
              /\ tx[r].row.as_of_date = as_of_date[r]
              /\ C34_HoldsDateLock(r)
        /\ hist[r].success_rows > 0 =>
              /\ hist[r].success_rows = 1
              /\ \E i \in 1..Len(recommendation_snapshots) :
                    /\ recommendation_snapshots[i].status = "success"
                    /\ recommendation_snapshots[i].as_of_date = as_of_date[r]

C34_Witness ==
    \E r \in Runs, s \in Runs :
        /\ hist[r].success_rows = 1
        /\ \E i \in 1..Len(recommendation_snapshots) :
              /\ recommendation_snapshots[i].status = "success"
              /\ recommendation_snapshots[i].as_of_date = as_of_date[r]
        /\ pc[s] = "persist_success"
        /\ llm_result[s].raw = "repair2"
        /\ as_of_date[s] # as_of_date[r]

\* requests of the current call sent once the request of this state is out
C35_RequestsSent(r) == llm[r].calls + 1

C35_RepairRequests(r) == IF pc[r] = "repair" THEN llm[r].attempt ELSE 0

C35_RetryRequests(r) ==
    IF pc[r] = "generate_retry" THEN 1
    ELSE C35_RequestsSent(r) - 1 - C35_RepairRequests(r)

\* C35: one call of generate_recommendations_with_raw sends at most 4 model
\* requests: the initial one, at most 1 truncation retry and at most 2
\* repair requests.
C35_AtMostFourRequests ==
    \A r \in Runs :
        pc[r] \in {"generate", "generate_retry", "repair"} =>
            /\ C35_RequestsSent(r) <= 4
            /\ C35_RequestsSent(r) = 1 + C35_RetryRequests(r) + C35_RepairRequests(r)
            /\ C35_RetryRequests(r) \in 0..1
            /\ C35_RepairRequests(r) \in 0..2

C35_Witness ==
    \E r \in Runs :
        /\ pc[r] = "repair"
        /\ llm[r].attempt = 2
        /\ llm[r].last_raw = "repair1"
        /\ C35_RequestsSent(r) = 4

\* steps a run has at most left before it has exited
C36_StepsLeft(p, l) ==
    CASE p = "idle" -> 12
      [] p = "acquire_lock" -> 11
      [] p = "idempotency_check" -> 10
      [] p = "build_universe" -> 9
      [] p = "generate" -> 8
      [] p = "generate_retry" -> 7
      [] p = "repair" -> 7 - l.attempt
      [] p = "persist_success" -> 4
      [] p = "persist_items" -> 3
      [] p = "record_failure" -> 3
      [] p = "record_persist_error" -> 2
      [] p = "release" -> 1
      [] OTHER -> 0

C36_Exited(r) == pc[r] \in {"done", "crashed"}

\* no run is waiting: the next step of a run that is under way can be taken
C36_NeverBlocked ==
    \A r \in Runs : (pc[r] \notin {"idle", "done", "crashed"}) => ENABLED Step(r)

\* the two steps that depend on another session, the lock attempt and the
\* insert under the unique index, can be taken whenever a run is at them
C36_NeverWaits ==
    \A r \in Runs :
        /\ (pc[r] = "acquire_lock") => ENABLED AcquireLock(r)
        /\ (pc[r] = "persist_success") => ENABLED PersistSuccessInsertSnapshot(r)

\* progress form of the same property, for FairSpec
C36_StartedRunExits ==
    \A r \in Runs : (pc[r] # "idle") ~> C36_Exited(r)

\* C36: every run terminates: as long as each external call returns, a run
\* reaches a terminal exit after a bounded number of steps; it never waits
\* for the date lock and has no unbounded retry or repair loop.  Every step
\* of a run lowers the number of steps it has left, which starts at 12, and
\* a run is never kept waiting by another session.
C36_EveryRunTerminates ==
    /\ []C36_NeverWaits
    /\ [][\A r \in Runs :
             (pc'[r] # pc[r] \/ llm'[r] # llm[r] \/ hist'[r] # hist[r]) =>
                 /\ C36_StepsLeft(pc'[r], llm'[r]) < C36_StepsLeft(pc[r], llm[r])
                 /\ C36_StepsLeft(pc'[r], llm'[r]) >= 0]_vars

C36_Witness ==
    \E r, s \in Runs :
        /\ SameDate(r, s)
        /\ pc[r] = "done" /\ hist[r].denied
        /\ pc[s] = "done" /\ hist[s].error_rows = 1
        /\ hist[s].outcome = "generation_failed"

C37_Released ==
    /\ call.fn = "try_acquire_as_of_date_lock"
    /\ call.pc \in {"released", "foreign_tried"}
    /\ call.acquired

\* C37: with the pool-based helpers, a date lock obtained by
\* try_acquire_as_of_date_lock(pool, d) is freed by a following
\* release_as_of_date_lock(pool, d) on the same pool: no session of the pool
\* holds it any more, and another session that then tries the lock gets it.
C37_PoolReleaseFreesLock ==
    C37_Released =>
        /\ \A c \in 1..5 :
              [key |-> lock_key_for_date(call.as_of_date), session |-> c]
                  \notin advisory_locks
        /\ call.pc = "foreign_tried" => call.foreign_acquired

C38_InFetch == call.fn \in {"fetch_daily_features", "fetch_one_stock_daily_features"}

C38_Failed(o) == o \notin {"ok", "ok_invalid"}

C38_Limit == IF call.max_attempts < 1 THEN 1 ELSE call.max_attempts

\* C38: each ingest fetch loop makes a bounded number of attempts (3 by
\* default), sleeps 2^(k-1) seconds after failed attempt k before retrying,
\* returns on the first successful attempt, surfaces the last error once
\* the attempts are exhausted, and never retries after a fetched response
\* fails validation.
C38_BoundedBackoffRetries ==
    C38_InFetch =>
        LET n == Len(call.outcomes)
        IN  /\ n = call.attempt
            /\ n <= C38_Limit
            /\ (call.fn = "fetch_one_stock_daily_features") => (C38_Limit = 3)
            /\ Len(call.sleeps) = (IF call.pc = "loop" THEN n ELSE n - 1)
            /\ \A k \in 1..Len(call.sleeps) :
                  /\ C38_Failed(call.outcomes[k])
                  /\ call.sleeps[k] = 2 ^ (k - 1)
            /\ \A k \in 1..n :
                  (~C38_Failed(call.outcomes[k])) =>
                      /\ k = n
                      /\ call.pc = "returned"
                      /\ call.result.ok <=> (call.outcomes[k] = "ok")
                      /\ call.result.attempt = k
            /\ (call.pc = "returned" /\ n = C38_Limit /\ C38_Failed(call.outcomes[n])) =>
                  call.result = [ok |-> FALSE, attempt |-> n, kind |-> call.outcomes[n]]

C38_Witness ==
    /\ call.fn = "fetch_daily_features"
    /\ call.max_attempts = 3
    /\ call.pc = "returned"
    /\ call.sleeps = <<1, 2>>
    /\ call.result = [ok |-> FALSE, attempt |-> 3, kind |-> "http_500"]

C39_Returned ==
    call.fn = "get_access_token_cached" /\ call.last.ops # <<>>

\* the expiry rule of the client for a token held since `since`: an absolute
\* expiry in KST if the token has one, else `since` plus expires_in, each
\* with the margin of 2 minutes; a token with neither is stale
C39_Fresh(t, since, now) ==
    IF t.access_token_token_expired.text = "kst"
    THEN now + 2 < t.access_token_token_expired.minute - 540
    ELSE t.expires_in > 0 /\ now + 2 < since + t.expires_in

C39_CacheHit ==
    /\ call.last.cache # <<>>
    /\ C39_Fresh(call.last.cache[1].token, call.last.cache[1].fetched_at,
                 call.last.now)

C39_DbHit ==
    /\ ~C39_CacheHit
    /\ call.last.loaded # <<>>
    /\ C39_Fresh(call.last.loaded[1], call.last.now, call.last.now)

C39_Unchanged ==
    /\ call.token_cache = call.last.cache
    /\ call.kis_access_tokens = call.last.db

\* C39: get_access_token_cached looks up in a fixed order: the in-process
\* token if it is not expired or stale; otherwise the token of the DB cache
\* if there is one that is not expired or stale, which is then also stored
\* in process; otherwise a new token is requested, stored in process and
\* written back to the DB cache, and a failed write-back does not fail the
\* call.
C39_LookupOrder ==
    C39_Returned =>
        LET l == call.last
            stored == <<[token |-> l.token, fetched_at |-> l.now]>>
        IN  /\ C39_CacheHit =>
                  /\ l.ops = <<"cache">>
                  /\ l.ok /\ l.token = l.cache[1].token
                  /\ C39_Unchanged
            /\ C39_DbHit =>
                  /\ l.ops = <<"cache", "db">>
                  /\ l.ok /\ l.token = l.loaded[1]
                  /\ call.token_cache = stored
                  /\ call.kis_access_tokens = l.db
            /\ (~C39_CacheHit /\ ~C39_DbHit) =>
                  /\ Len(l.ops) >= (IF call.db_pool THEN 3 ELSE 2)
                  /\ SubSeq(l.ops, 1, IF call.db_pool THEN 3 ELSE 2)
                        = (IF call.db_pool THEN <<"cache", "db", "fetch">>
                           ELSE <<"cache", "fetch">>)
                  /\ l.ok =>
                        /\ l.token.access_token = call.issued
                        /\ l.token.issued_at = l.now
                        /\ call.token_cache = stored
                        /\ IF ~call.db_pool
                           THEN l.ops = <<"cache", "fetch">>
                                /\ call.kis_access_tokens = l.db
                           ELSE \/ /\ l.ops = <<"cache", "db", "fetch", "save">>
                                   /\ call.kis_access_tokens = <<l.token>>
                                \/ /\ l.ops = <<"cache", "db", "fetch", "save_failed">>
                                   /\ call.kis_access_tokens = l.db
                  /\ ~(l.ok) => C39_Unchanged

\* both caches held a stale token, a new one was requested and its
\* write-back failed
C39_Witness ==
    /\ C39_Returned
    /\ call.last.ops = <<"cache", "db", "fetch", "save_failed">>
    /\ call.last.ok
    /\ call.last.cache # <<>>
    /\ call.last.db # <<>>
    /\ call.last.loaded # <<>>

\* the token returned by the last call came from one of the two caches
C40_FromCache ==
    /\ call.fn = "get_access_token_cached"
    /\ call.last.ok
    /\ call.last.ops \in {<<"cache">>, <<"cache", "db">>}

\* when the server stops accepting the token
C40_RealExpiry(t) == t.issued_at + TOKEN_LIFETIME_MINUTES

\* C40: get_access_token_cached never returns a previously cached token,
\* from the in-process cache or from the DB cache, whose real expiry is
\* already past or less than 2 minutes away, also for tokens that carry only
\* a relative expires_in and no absolute expiry time.
C40_NoStaleCachedToken ==
    C40_FromCache =>
        call.last.now + STALE_MARGIN_MINUTES <= C40_RealExpiry(call.last.token)

====
